---- MODULE Spec2Model ----
(***************************************************************************)
(* Verification model of the AnyClaude proxy data plane: the thinking      *)
(* block registry, the backend state, the request path through the router  *)
(* and upstream client, the observed stream, the SSE model rewriter and    *)
(* the upstream retry loop.  Each component has its own specification over *)
(* the shared variable tuple; the variables of the other components stay   *)
(* at their initial values.                                                *)
(***************************************************************************)
EXTENDS Integers, Sequences, FiniteSets, TLC

VARIABLES
    \* ---- ThinkingRegistry (src/proxy/thinking/registry.rs) ----
    current_session,   \* ThinkingRegistry.current_session
    current_backend,   \* ThinkingRegistry.current_backend
    blocks,            \* ThinkingRegistry.blocks : fingerprint -> BlockInfo
    now,               \* Instant::now(), in seconds
    op,                \* name of the last registry operation executed
    req,               \* the body handed to it, when op is filter_request
    body,              \* that body as filter_request left it
    stats,             \* what that filter_request counted: blocks confirmed and removed
    harvest_session,   \* the session id handed to the last register call
    harvest_hashes,    \* the fingerprints the last register call registered
    filtered_count,    \* the count the last filter_request returned
    transitions,       \* on_backend_switch calls whose backend differed from the recorded one
    \* ---- BackendState (src/backend/state.rs) ----
    active_backend,    \* BackendStateInner.active_backend
    config,            \* BackendStateInner.config
    switch_log,        \* BackendStateInner.switch_log
    bs_result,         \* result of the last BackendState call
    bs_call,           \* the last BackendState call and its backend_id
    \* ---- one proxied request (src/proxy/router.rs, src/proxy/upstream.rs) ----
    pc,                \* where each request is
    pipeline,          \* "main" or "teammate" (router the request came through)
    thinking_backend,  \* backend thinking_middleware passed to begin_request
    entry_active,      \* proxy_handler's active_backend
    record_backend,    \* span.record.backend
    backend_override,  \* proxy_handler's backend_override, handed to forward
    upstream_backend,  \* backend whose configuration the request is sent with
    \* ---- ObservedStream (src/metrics/stream.rs) ----
    span,              \* ObservedStream.span : Option<RequestSpan>
    idle,              \* seconds since the deadline was armed or reset
    inner,             \* the upstream body stream: "open", "ended" or "failed"
    dropped,           \* the wrapper has been dropped
    last_poll,         \* what the last poll_next returned
    seen,              \* the poll results returned so far
    polls,             \* number of poll_next calls
    finished,          \* the spans handed to ObservabilityHub::finish_request
    \* ---- reverse model rewriter (src/proxy/model_rewrite.rs) ----
    done,              \* the closure's `done` flag
    was_done,          \* `done` when the last call began
    chunk_in,          \* the chunk given to the last call
    chunk_out,         \* the chunk the last call returned
    chunks_seen,       \* number of calls on this rewriter
    json_in,           \* the body given to reverse_model_in_response
    json_out,          \* the body it returned
    \* ---- retry loop of do_forward (src/proxy/upstream.rs) ----
    max_retries,       \* pool_config.max_retries
    retry_backoff_base,\* pool_config.retry_backoff_base, in milliseconds
    overflow_checks,   \* the build panics on arithmetic overflow
    attempt,           \* the loop's `attempt` counter
    sends,             \* send attempts made
    sleeps,            \* the backoff sleeps taken, in order
    last_err,          \* the error of the last failed attempt
    outcome,           \* how do_forward's loop ended, "running" before that
    \* ---- filter_request, phase by phase, among other tasks ----
    holder,            \* the task that holds `&mut ThinkingRegistry`, if any
    phase,             \* the phase of filter_request that task completed last
    fr_body,           \* filter_request's `body`
    fr_hashes,         \* its `request_hashes`
    fr_now,            \* its `now`
    fr_session,        \* current_session as the extract phase saw it
    fr_start,          \* the block map when the call began
    fr_left,           \* the block map as the last completed phase left it
    fr_stats,          \* the counts gathered so far
    waiting,           \* the tasks blocked on the registry
    \* ---- get_config_and_active_backend among writers ----
    read_pc,           \* where the reader is: "idle", "config_read", "returned"
    snap_config,       \* the Config the reader cloned
    snap_active,       \* the active id the reader cloned
    held,              \* the (config, active id) pairs BackendState held during the call
    writer,            \* the new_config of the update_config that holds the write lock
    \* ---- model map of one request ----
    mm_slots,          \* the active backend's model map: family -> backend model
    mm_pc,             \* "idle", "sent" or "delivered"
    mm_client,         \* the model the client sent
    mm_pair,           \* the ModelMapping of the request, if a slot matched
    mm_upstream,       \* the model sent to the backend
    mm_reply,          \* the model the response carried
    mm_delivered,      \* the model in the response the client receives
    \* ---- the response do_forward builds (src/proxy/upstream.rs) ----
    up_cl,             \* Content-Length of the upstream response, if it has one
    up_len,            \* bytes of the upstream body
    up_streaming,      \* Content-Type contains text/event-stream
    resp_pc,           \* "idle", "streaming", "complete", "aborted", "error"
    resp_cl,           \* Content-Length of the response sent to the client
    resp_received,     \* bytes of body the client has received
    \* ---- RequestRingBuffer (src/metrics/ring.rs) ----
    ring_capacity,     \* capacity
    ring_records,      \* records, front first
    ring_pushed,       \* history: every record pushed, in push order
    \* ---- ShutdownManager::wait_for_connections (src/proxy/shutdown.rs) ----
    active_connections, \* the counter
    wc_pc,             \* "loop", "sleep", "returned"
    wc_timeout,        \* the timeout argument, in milliseconds
    wc_elapsed,        \* start.elapsed(), in milliseconds
    wc_result,         \* "none", "stopped" (counter seen at 0), "forced"
    \* ---- the router build_router builds (src/proxy/router.rs) ----
    rt_teams,          \* teams: the teammate backend, if configured
    rt_path,           \* path of the last request
    rt_pipeline,       \* "none", "health", "teammate", "main"
    rt_override,       \* BackendOverride extension the handler finds
    rt_backend,        \* the backend the handler uses
    \* ---- a streamed response and the request after it ----
    sse_events,        \* the events of the harvested stream
    sse_registered,    \* the registry after the harvest
    sse_echo,          \* the thinking text sent back, and whether it was kept
    \* ---- requests notifying the registry (src/proxy/router.rs thinking_middleware) ----
    nt_read,           \* per task: the active backend it read and has not yet passed on
    nt_active,         \* BackendState.active_backend
    nt_registry,       \* current_session and current_backend of the registry
    nt_changes,        \* history: changes of the active backend
    nt_fresh,          \* history: a task read the active backend after its last change
    \* ---- a response stream cut into chunks (src/proxy/model_rewrite.rs) ----
    sp_stream,         \* the lines of the response stream
    sp_cut,            \* where in its last line the last chunk ended, or "none"
    sp_done,           \* the `done` of the closure
    sp_out,            \* what the closure has returned, chunk after chunk
    \* ---- the connection counter (src/proxy/connection.rs) ----
    cn_connections,    \* ShutdownManager.active_connections as the counter layer drives it
    cn_futures,        \* futures returned by ConnectionCounter::call, not yet resolved or dropped
    cn_guards,         \* live ConnectionGuard values
    \* ---- the metrics hub under concurrent calls (src/metrics/hub.rs) ----
    hub_capacity,      \* capacity of the hub's ring
    hub_aggregates,    \* per backend: BackendAccumulator.total, 0 when there is no entry
    hub_ring,          \* records of the ring
    hub_task,          \* per task: the record of a finish_request between its two locks
    hub_returned,      \* history: finish_request calls that have returned
    hub_recent,        \* the ring as a snapshot in progress read it
    hub_snapshot,      \* the last MetricsSnapshot returned
    \* ---- the terminal input parser (crates/term_input/src/parser.rs) ----
    ps_parser,         \* the InputParser
    ps_returned,       \* the events the last call returned
    ps_op,             \* the last call: "new", "feed" or "flush"
    ps_unfinished,     \* history: the bytes of the unfinished paste the last flush met
    ps_calls,          \* history: calls made
    \* ---- the history dialog (src/ui/history/reducer.rs) ----
    hs_state,          \* the HistoryDialogState
    hs_prev,           \* history: the state the last intent was applied to
    hs_intent,         \* history: the last intent
    \* ---- the summarization dialog (src/ui/summarization/reducer.rs) ----
    sm_state,          \* the SummarizeDialogState
    sm_intent,         \* history: the last intent
    sm_errors,         \* history: Error intents in a row since the last Start
    \* ---- the error registry (src/error.rs) ----
    er_inner,          \* the ErrorRegistryInner
    er_recorded        \* history: every error recorded, in the order of the calls

regVars == <<current_session, current_backend, blocks, now, op, req, body,
            stats, harvest_session, harvest_hashes, filtered_count, transitions>>
bsVars == <<active_backend, config, switch_log, bs_result, bs_call>>

reqVars == <<pc, pipeline, thinking_backend, entry_active, record_backend,
             backend_override, upstream_backend>>

streamVars == <<span, idle, inner, dropped, last_poll, seen, polls, finished>>

rwVars == <<done, was_done, chunk_in, chunk_out, chunks_seen, json_in, json_out>>

retryVars == <<max_retries, retry_backoff_base, overflow_checks, attempt,
               sends, sleeps, last_err, outcome>>

txVars == <<holder, phase, fr_body, fr_hashes, fr_now, fr_session, fr_start,
            fr_left, fr_stats, waiting>>

snapVars == <<read_pc, snap_config, snap_active, held, writer>>

mmVars == <<mm_slots, mm_pc, mm_client, mm_pair, mm_upstream, mm_reply, mm_delivered>>

respVars == <<up_cl, up_len, up_streaming, resp_pc, resp_cl, resp_received>>

ringVars == <<ring_capacity, ring_records, ring_pushed>>

waitVars == <<active_connections, wc_pc, wc_timeout, wc_elapsed, wc_result>>

rtVars == <<rt_teams, rt_path, rt_pipeline, rt_override, rt_backend>>

sseVars == <<sse_events, sse_registered, sse_echo>>

ntVars == <<nt_read, nt_active, nt_registry, nt_changes, nt_fresh>>

spVars == <<sp_stream, sp_cut, sp_done, sp_out>>

cnVars == <<cn_connections, cn_futures, cn_guards>>

hubVars == <<hub_capacity, hub_aggregates, hub_ring, hub_task, hub_returned, hub_recent, hub_snapshot>>

psVars == <<ps_parser, ps_returned, ps_op, ps_unfinished, ps_calls>>

hsVars == <<hs_state, hs_prev, hs_intent>>

smVars == <<sm_state, sm_intent, sm_errors>>

erVars == <<er_inner, er_recorded>>

vars == <<regVars, bsVars, reqVars, streamVars, rwVars, retryVars, txVars, snapVars,
          mmVars, respVars, ringVars, waitVars, rtVars, sseVars, ntVars, spVars, cnVars, hubVars, psVars, hsVars, smVars, erVars>>

\* The variables outside each component.
regOthers == <<bsVars, reqVars, streamVars, rwVars, retryVars, txVars, snapVars, mmVars, respVars, ringVars, waitVars, rtVars, sseVars, ntVars, spVars, cnVars, hubVars, psVars, hsVars, smVars, erVars>>
bsOthers == <<regVars, reqVars, streamVars, rwVars, retryVars, txVars, snapVars, mmVars, respVars, ringVars, waitVars, rtVars, sseVars, ntVars, spVars, cnVars, hubVars, psVars, hsVars, smVars, erVars>>
reqOthers == <<regVars, streamVars, rwVars, retryVars, txVars, snapVars, mmVars, respVars, ringVars, waitVars, rtVars, sseVars, ntVars, spVars, cnVars, hubVars, psVars, hsVars, smVars, erVars>>
streamOthers == <<regVars, bsVars, reqVars, rwVars, retryVars, txVars, snapVars, mmVars, respVars, ringVars, waitVars, rtVars, sseVars, ntVars, spVars, cnVars, hubVars, psVars, hsVars, smVars, erVars>>
rwOthers == <<regVars, bsVars, reqVars, streamVars, retryVars, txVars, snapVars, mmVars, respVars, ringVars, waitVars, rtVars, sseVars, ntVars, spVars, cnVars, hubVars, psVars, hsVars, smVars, erVars>>
retryOthers == <<regVars, bsVars, reqVars, streamVars, rwVars, txVars, snapVars, mmVars, respVars, ringVars, waitVars, rtVars, sseVars, ntVars, spVars, cnVars, hubVars, psVars, hsVars, smVars, erVars>>

\* ---------------------------------------------------------------------
\* Bounds of the model
\* ---------------------------------------------------------------------
MaxSession == 2        \* on_backend_switch is enabled while current_session < MaxSession
MaxItems == 2          \* content items per message
TickSeconds == 300     \* the clock advances in steps of this many seconds
MaxNow == 600          \* the clock stops here

\* ---------------------------------------------------------------------
\* Program constants
\* ---------------------------------------------------------------------
MaxBackends == 2       \* backends per configuration
MaxLog == 2            \* switch_log entries

MaxPolls == 4          \* poll_next calls on one stream
IdleTimeout == 2       \* ObservedStream.idle_timeout, in seconds
MaxLines == 2          \* lines in one SSE chunk
MaxChunks == 3         \* chunks given to one rewriter
MaxRetries == 33       \* largest configured max_retries
MaxCapacity == 3       \* largest capacity of a ring buffer
MaxPushes == 5         \* records pushed into one ring buffer
MaxConnections == 2    \* connections open when the wait begins
MaxHalfIntervals == 4  \* longest short timeout, in half poll intervals
MaxPath == 5           \* characters in a request path
MaxEvents == 4          \* events in one SSE stream
MaxChanges == 2         \* changes of the active backend while requests arrive
MaxStream == 3          \* lines of one response stream cut into chunks
MaxOpen == 8            \* highest count of the connection counter
MaxFinishes == 3        \* finish_request calls on one hub
MaxCalls == 5           \* feed and flush calls on one parser
MaxEntries == 20        \* longest history loaded into the dialog
MaxTicks == 3           \* animation ticks counted in one dialog state
MaxErrors == 4          \* Error intents counted after one Start
MaxRecorded == 4        \* errors recorded in one registry
MaxBody == 5           \* bytes in an upstream response body

DEFAULT_ORPHAN_THRESHOLD == 300
HashWindow == 256
DefaultMaxRetries == 3         \* PoolConfig::default().max_retries
DefaultBackoffBase == 100      \* PoolConfig::default().retry_backoff_base, ms
MAX_VISIBLE_ROWS == 14         \* rows of the history dialog
MAX_AUTO_RETRIES == 3          \* summarization attempts before the user is asked
ShiftWidth == 32               \* bits of the u32 in `1u32 << attempt`

\* Option<String>: None is the empty set, Some(s) the singleton {s}.
None == {}
Some(s) == {s}
Unwrap(o) == CHOOSE s \in o : TRUE

\* A JSON value read with as_array(): an array of items, or something else.
Array(items) == [is_array |-> TRUE, items |-> items]
NonArray == [is_array |-> FALSE, items |-> <<>>]

\* A request body: its "messages" array, or a body without one.
Body(msgs) == [has_messages |-> TRUE, messages |-> msgs]
NoMessages == [has_messages |-> FALSE, messages |-> <<>>]

\* A response body: bytes that do not parse as JSON, or its "content" value.
Invalid == [is_json |-> FALSE, content |-> NonArray]
Response(c) == [is_json |-> TRUE, content |-> c]

BackendNames == {"anthropic", "glm"}

\* Backend ids that occur in configurations and switch requests.
BackendIds == BackendNames

\* AgentTeamsConfig.teammate_backend of the /teammate router.
TeammateBackend == "glm"

\* The requests in flight.
Requests == {"r1"}

\* Thinking texts, as byte strings.
Contents == {<<1>>, <<2>>}

\* ---------------------------------------------------------------------
\* Content hasher
\* ---------------------------------------------------------------------
safe_truncate(s, max_bytes) ==
    IF Len(s) <= max_bytes THEN s ELSE SubSeq(s, 1, max_bytes)

safe_suffix(s, max_bytes) ==
    IF Len(s) <= max_bytes THEN s ELSE SubSeq(s, Len(s) - max_bytes + 1, Len(s))

\* The hash is taken over (prefix, suffix, length); the 64-bit hash of the
\* triple is modelled by the triple itself.
fast_hash(content) ==
    <<safe_truncate(content, HashWindow), safe_suffix(content, HashWindow), Len(content)>>

\* ---------------------------------------------------------------------
\* JSON values the registry looks at
\* ---------------------------------------------------------------------
\* A content item: its "type" and the string field the type designates
\* ("thinking" for thinking, "data" for redacted_thinking), None if that
\* field is missing or not a string.
Item(t, p) == [type |-> t, payload |-> p]

Items ==
    { Item("thinking", Some(<<1>>)), Item("redacted_thinking", Some(<<2>>)),
      Item("text", None) }

\* Thinking items whose text field is missing.
BrokenItems == { Item("thinking", None), Item("redacted_thinking", None) }

RECURSIVE SeqsUpTo(_, _)
SeqsUpTo(S, n) ==
    IF n = 0 THEN { <<>> }
    ELSE LET shorter == SeqsUpTo(S, n - 1)
         IN  shorter \cup { Append(s, x) : s \in { t \in shorter : Len(t) = n - 1 }, x \in S }

\* The sequences of at most n elements of S that repeat no element.
DistinctSeqsUpTo(S, n) ==
    { s \in SeqsUpTo(S, n) : \A i, j \in DOMAIN s : s[i] = s[j] => i = j }

\* A "content" value: an array of different items in any order, or a string.
ContentValues == { Array(c) : c \in DistinctSeqsUpTo(Items, MaxItems) } \cup { NonArray }

Message(r, c) == [role |-> r, content |-> c]

Messages == { Message(r, c) : r \in {"user", "assistant"}, c \in ContentValues }

\* Request bodies: no messages array, an empty one, one message, or an
\* assistant turn with one thinking block followed by a user turn.
Bodies ==
    { NoMessages, Body(<<>>) }
        \cup { Body(<<m>>) : m \in Messages }
        \cup { Body(<<Message("assistant", Array(<<i>>)), Message("user", NonArray)>>) :
                    i \in { j \in Items : j.type # "text" } }
        \cup { Body(<<Message("assistant", Array(<<i, j>>))>>) :
                    i \in BrokenItems, j \in Items }

extract_thinking_content(item) ==
    IF item.type \in {"thinking", "redacted_thinking"} THEN item.payload ELSE None

\* ---------------------------------------------------------------------
\* ThinkingRegistry
\* ---------------------------------------------------------------------
BlockInfo(s, c, t) == [session |-> s, confirmed |-> c, registered_at |-> t]

Restrict(f, S) == [x \in S |-> f[x]]

\* Mutant: the block is inserted whether or not it is registered.
register_block_always_inserts(bl, content, session_id, t) ==
    LET hash == fast_hash(content)
    IN  [h \in (DOMAIN bl) \cup {hash} |->
            IF h = hash THEN BlockInfo(session_id, FALSE, t) ELSE bl[h]]

\* Mutant: the session is read again at harvest time.
register_block_session_reread(bl, content, session_id, t) ==
    LET hash == fast_hash(content)
    IN  IF hash \in DOMAIN bl /\ bl[hash].session = current_session
        THEN bl
        ELSE [h \in (DOMAIN bl) \cup {hash} |->
                 IF h = hash THEN BlockInfo(current_session, FALSE, t) ELSE bl[h]]

register_block(bl, content, session_id, t) ==
    LET hash == fast_hash(content)
    IN  IF hash \in DOMAIN bl /\ bl[hash].session = session_id
        THEN bl
        ELSE [h \in (DOMAIN bl) \cup {hash} |->
                 IF h = hash THEN BlockInfo(session_id, FALSE, t) ELSE bl[h]]

RECURSIVE register_items(_, _, _, _)
register_items(bl, items, session_id, t) ==
    IF items = <<>> THEN bl
    ELSE LET thinking == extract_thinking_content(Head(items))
             next == IF thinking # None
                     THEN register_block(bl, Unwrap(thinking), session_id, t)
                     ELSE bl
         IN  register_items(next, Tail(items), session_id, t)

register_from_response(bl, response_body, session_id, t) ==
    IF ~response_body.is_json \/ ~response_body.content.is_array THEN bl
    ELSE register_items(bl, response_body.content.items, session_id, t)

\* An SSE event (src/sse.rs SseEvent): its type, data.index, the type of
\* data.content_block or data.delta ("" when that object is missing) and
\* the string field read from it.
SseEvent(t, i, k, s) == [event_type |-> t, index |-> i, kind |-> k, text |-> s]

\* Mutant: a delta replaces the accumulated text.
sse_step_delta_overwrites(acc, bl, event, session_id, t) ==
    CASE event.event_type = "content_block_start" /\ event.kind = "thinking"
             /\ event.index # None ->
            LET index == Unwrap(event.index)
                initial == IF event.text # None THEN Unwrap(event.text) ELSE <<>>
            IN  <<[i \in (DOMAIN acc) \cup {index} |->
                      IF i = index THEN initial ELSE acc[i]], bl>>
      [] event.event_type = "content_block_start" /\ event.kind = "redacted_thinking"
             /\ event.text # None ->
            <<acc, register_block(bl, Unwrap(event.text), session_id, t)>>
      [] event.event_type = "content_block_delta" /\ event.kind = "thinking_delta"
             /\ event.index # None /\ event.text # None
             /\ event.index \subseteq DOMAIN acc ->
            <<[acc EXCEPT ![Unwrap(event.index)] = Unwrap(event.text)], bl>>
      [] event.event_type = "content_block_stop" /\ event.index # None
             /\ event.index \subseteq DOMAIN acc ->
            LET index == Unwrap(event.index)
                accumulated == acc[index]
            IN  <<Restrict(acc, (DOMAIN acc) \ {index}),
                  IF accumulated # <<>>
                  THEN register_block(bl, accumulated, session_id, t)
                  ELSE bl>>
      [] OTHER -> <<acc, bl>>

\* One step of the event loop: the pair (accumulators, blocks) after event.
sse_step(acc, bl, event, session_id, t) ==
    CASE event.event_type = "content_block_start" /\ event.kind = "thinking"
             /\ event.index # None ->
            LET index == Unwrap(event.index)
                initial == IF event.text # None THEN Unwrap(event.text) ELSE <<>>
            IN  <<[i \in (DOMAIN acc) \cup {index} |->
                      IF i = index THEN initial ELSE acc[i]], bl>>
      [] event.event_type = "content_block_start" /\ event.kind = "redacted_thinking"
             /\ event.text # None ->
            <<acc, register_block(bl, Unwrap(event.text), session_id, t)>>
      [] event.event_type = "content_block_delta" /\ event.kind = "thinking_delta"
             /\ event.index # None /\ event.text # None
             /\ event.index \subseteq DOMAIN acc ->
            <<[acc EXCEPT ![Unwrap(event.index)] = @ \o Unwrap(event.text)], bl>>
      [] event.event_type = "content_block_stop" /\ event.index # None
             /\ event.index \subseteq DOMAIN acc ->
            LET index == Unwrap(event.index)
                accumulated == acc[index]
            IN  <<Restrict(acc, (DOMAIN acc) \ {index}),
                  IF accumulated # <<>>
                  THEN register_block(bl, accumulated, session_id, t)
                  ELSE bl>>
      [] OTHER -> <<acc, bl>>

\* The accumulators left after the loop (stream truncated) are registered.
RECURSIVE register_remaining(_, _, _, _)
register_remaining(acc, bl, session_id, t) ==
    IF DOMAIN acc = {} THEN bl
    ELSE LET index == CHOOSE i \in DOMAIN acc : TRUE
             next == IF acc[index] # <<>>
                     THEN register_block(bl, acc[index], session_id, t)
                     ELSE bl
         IN  register_remaining(Restrict(acc, (DOMAIN acc) \ {index}), next, session_id, t)

RECURSIVE sse_loop(_, _, _, _, _)
sse_loop(acc, bl, events, session_id, t) ==
    IF events = <<>> THEN register_remaining(acc, bl, session_id, t)
    ELSE LET next == sse_step(acc, bl, Head(events), session_id, t)
         IN  sse_loop(next[1], next[2], Tail(events), session_id, t)

register_from_sse_stream(bl, events, session_id, t) ==
    sse_loop(<< >>, bl, events, session_id, t)

RECURSIVE content_hashes(_)
content_hashes(content) ==
    IF content = <<>> THEN {}
    ELSE LET thinking == extract_thinking_content(Head(content))
         IN  (IF thinking # None THEN { fast_hash(Unwrap(thinking)) } ELSE {})
                 \cup content_hashes(Tail(content))

extract_request_hashes(b) ==
    IF ~b.has_messages THEN {}
    ELSE UNION { IF ~b.messages[i].content.is_array THEN {}
                 ELSE content_hashes(b.messages[i].content.items)
                 : i \in DOMAIN b.messages }

confirm_blocks(bl, session, request_hashes) ==
    [h \in DOMAIN bl |->
        IF h \in request_hashes /\ bl[h].session = session /\ ~bl[h].confirmed
        THEN [bl[h] EXCEPT !.confirmed = TRUE]
        ELSE bl[h]]

\* Mutant: Rule 1 forgotten on the history-less path.
cleanup_old_sessions_keeps_all(bl, session) == bl

cleanup_old_sessions(bl, session) ==
    Restrict(bl, { h \in DOMAIN bl : bl[h].session = session })

\* Mutant: Rule 1 left out of the full cleanup.
cleanup_cache_without_rule1(bl, session, request_hashes, t, threshold) ==
    IF request_hashes = {} THEN cleanup_old_sessions(bl, session)
    ELSE Restrict(bl,
            { h \in DOMAIN bl :
                \/ bl[h].session # session
                \/ /\ ~(bl[h].confirmed /\ h \notin request_hashes)
                   /\ ~(/\ ~bl[h].confirmed
                        /\ h \notin request_hashes
                        /\ t - bl[h].registered_at > threshold) })

\* Mutant: Rule 2 left out, confirmed entries are never evicted.
cleanup_cache_without_rule2(bl, session, request_hashes, t, threshold) ==
    IF request_hashes = {} THEN cleanup_old_sessions(bl, session)
    ELSE Restrict(bl,
            { h \in DOMAIN bl :
                /\ bl[h].session = session
                /\ ~(/\ ~bl[h].confirmed
                     /\ h \notin request_hashes
                     /\ t - bl[h].registered_at > threshold) })

\* Mutant: Rule 3 fires as soon as the age reaches the threshold.
cleanup_cache_orphan_at_threshold(bl, session, request_hashes, t, threshold) ==
    IF request_hashes = {} THEN cleanup_old_sessions(bl, session)
    ELSE Restrict(bl,
            { h \in DOMAIN bl :
                /\ bl[h].session = session
                /\ ~(bl[h].confirmed /\ h \notin request_hashes)
                /\ ~(/\ ~bl[h].confirmed
                     /\ h \notin request_hashes
                     /\ t - bl[h].registered_at >= threshold) })

\* Mutant: Rules 2 and 3 applied even when the request names no block.
cleanup_cache_no_empty_check(bl, session, request_hashes, t, threshold) ==
    Restrict(bl,
        { h \in DOMAIN bl :
            /\ bl[h].session = session
            /\ ~(bl[h].confirmed /\ h \notin request_hashes)
            /\ ~(/\ ~bl[h].confirmed
                 /\ h \notin request_hashes
                 /\ t - bl[h].registered_at > threshold) })

cleanup_cache(bl, session, request_hashes, t, threshold) ==
    IF request_hashes = {} THEN cleanup_old_sessions(bl, session)
    ELSE Restrict(bl,
            { h \in DOMAIN bl :
                /\ bl[h].session = session
                /\ ~(bl[h].confirmed /\ h \notin request_hashes)
                /\ ~(/\ ~bl[h].confirmed
                     /\ h \notin request_hashes
                     /\ t - bl[h].registered_at > threshold) })

has_history(b) ==
    /\ b.has_messages
    /\ \E i \in DOMAIN b.messages : b.messages[i].role = "assistant"

\* Mutant: an item is kept only when its fingerprint is registered.
keep_item_registered_only(bl, item) ==
    LET thinking == extract_thinking_content(item)
    IN  /\ thinking # None
        /\ fast_hash(Unwrap(thinking)) \in DOMAIN bl

keep_item(bl, item) ==
    IF item.type \notin {"thinking", "redacted_thinking"} THEN TRUE
    ELSE LET thinking == extract_thinking_content(item)
         IN  /\ thinking # None
             /\ fast_hash(Unwrap(thinking)) \in DOMAIN bl

filter_request_body(bl, b) ==
    IF ~b.has_messages THEN b
    ELSE Body([i \in DOMAIN b.messages |->
            LET message == b.messages[i]
            IN  IF ~message.content.is_array THEN message
                ELSE Message(message.role,
                             Array(SelectSeq(message.content.items,
                                             LAMBDA item : keep_item(bl, item))))])

\* `removed_count += (before_len - content.len()) as u32` over the messages
\* whose content is an array.
RECURSIVE removed_from(_, _)
removed_from(bl, messages) ==
    IF messages = <<>> THEN 0
    ELSE LET message == Head(messages)
             removed ==
                 IF ~message.content.is_array THEN 0
                 ELSE Len(message.content.items)
                          - Len(SelectSeq(message.content.items,
                                          LAMBDA item : keep_item(bl, item)))
         IN  removed + removed_from(bl, Tail(messages))

\* The count filter_request_body returns.
removed_count(bl, b) ==
    IF ~b.has_messages THEN 0 ELSE removed_from(bl, b.messages)

\* CleanupStats, with the count confirm_blocks returns.
Stats(confirmed, old, unused, orphaned) ==
    [confirmed |-> confirmed, old_session |-> old,
     confirmed_unused |-> unused, orphaned |-> orphaned]

NoStats == Stats(0, 0, 0, 0)

\* confirm_blocks' return value: the entries it newly confirmed.
confirmed_count(bl, session, request_hashes) ==
    Cardinality({ h \in DOMAIN bl :
                    h \in request_hashes /\ bl[h].session = session /\ ~bl[h].confirmed })

\* The counters of cleanup_old_sessions and cleanup_cache, one per rule;
\* an entry is counted under the first rule that removes it.
old_session_count(bl, session) ==
    Cardinality({ h \in DOMAIN bl : bl[h].session # session })

confirmed_unused_count(bl, session, request_hashes) ==
    Cardinality({ h \in DOMAIN bl :
                    /\ bl[h].session = session
                    /\ bl[h].confirmed /\ h \notin request_hashes })

orphaned_count(bl, session, request_hashes, t, threshold) ==
    Cardinality({ h \in DOMAIN bl :
                    /\ bl[h].session = session
                    /\ ~bl[h].confirmed /\ h \notin request_hashes
                    /\ t - bl[h].registered_at > threshold })

\* The counts filter_request logs: confirmed, then the cleanup it ran.
filter_request_stats(bl, session, b, t, threshold) ==
    LET request_hashes == extract_request_hashes(b)
        confirmed == confirm_blocks(bl, session, request_hashes)
        rules23 == has_history(b) /\ request_hashes # {}
    IN  Stats(confirmed_count(bl, session, request_hashes),
              old_session_count(confirmed, session),
              IF rules23 THEN confirmed_unused_count(confirmed, session, request_hashes)
              ELSE 0,
              IF rules23
              THEN orphaned_count(confirmed, session, request_hashes, t, threshold)
              ELSE 0)

\* Mutant: every request is treated as one without history.
filter_request_blocks_rule1_only(bl, session, b, t, threshold) ==
    cleanup_old_sessions(confirm_blocks(bl, session, extract_request_hashes(b)), session)

\* The registry after filter_request(b): confirm, then cleanup.
filter_request_blocks(bl, session, b, t, threshold) ==
    LET request_hashes == extract_request_hashes(b)
        confirmed == confirm_blocks(bl, session, request_hashes)
    IN  IF has_history(b)
        THEN cleanup_cache(confirmed, session, request_hashes, t, threshold)
        ELSE cleanup_old_sessions(confirmed, session)

\* ---------------------------------------------------------------------
\* Registry operations
\* ---------------------------------------------------------------------
RegInit ==
    /\ current_session = 0
    /\ current_backend = ""
    /\ blocks = << >>
    /\ now = 0
    /\ req = NoMessages
    /\ body = NoMessages
    /\ stats = NoStats
    /\ harvest_session = None
    /\ harvest_hashes = {}
    /\ filtered_count = 0
    /\ transitions = 0
    /\ op = "new"

\* Mutant: every call opens a new session.
on_backend_switch_every_call(new_backend) ==
    /\ current_session < MaxSession
    /\ current_session' = current_session + 1
    /\ current_backend' = new_backend
    /\ transitions' = transitions + (IF new_backend # current_backend THEN 1 ELSE 0)
    /\ op' = "on_backend_switch"
    /\ req' = NoMessages /\ body' = NoMessages
    /\ stats' = NoStats /\ harvest_session' = None /\ harvest_hashes' = {}
    /\ filtered_count' = 0
    /\ UNCHANGED <<blocks, now>>
    /\ UNCHANGED regOthers

on_backend_switch(new_backend) ==
    /\ current_session < MaxSession
    /\ IF current_backend # new_backend
       THEN /\ current_session' = current_session + 1
            /\ current_backend' = new_backend
       ELSE UNCHANGED <<current_session, current_backend>>
    /\ transitions' = transitions + (IF new_backend # current_backend THEN 1 ELSE 0)
    /\ op' = "on_backend_switch"
    /\ req' = NoMessages /\ body' = NoMessages
    /\ stats' = NoStats /\ harvest_session' = None /\ harvest_hashes' = {}
    /\ filtered_count' = 0
    /\ UNCHANGED <<blocks, now>>
    /\ UNCHANGED regOthers

OnBackendSwitch == \E b \in BackendNames : on_backend_switch(b)

ResponseBodies ==
    { Response(Array(c)) : c \in SeqsUpTo(Items \cup BrokenItems, 1) }
        \cup { Invalid, Response(NonArray) }

\* An empty registry: every block a register call is given is inserted.
NoBlocks == << >>

RegisterFromResponse ==
    \E r \in ResponseBodies, sid \in 0..current_session :
        /\ blocks' = register_from_response(blocks, r, sid, now)
        /\ op' = "register_from_response"
        /\ req' = NoMessages /\ body' = NoMessages
        /\ stats' = NoStats /\ harvest_session' = Some(sid)
        /\ filtered_count' = 0
        /\ harvest_hashes' = DOMAIN register_from_response(NoBlocks, r, sid, now)
        /\ UNCHANGED <<current_session, current_backend, now, transitions>>
        /\ UNCHANGED regOthers

ThinkingStart(i, s) == SseEvent("content_block_start", Some(i), "thinking", s)
ThinkingDelta(i, s) == SseEvent("content_block_delta", Some(i), "thinking_delta", Some(s))
BlockStop(i) == SseEvent("content_block_stop", Some(i), "", None)
RedactedStart(i, s) == SseEvent("content_block_start", Some(i), "redacted_thinking", s)

\* Streams: a complete thinking block, a redacted block, a truncated stream,
\* an empty block, a delta and a stop without a start, a text block.
SseStreams ==
    { <<ThinkingStart(0, Some(<<>>)), ThinkingDelta(0, <<1>>), BlockStop(0)>>,
      <<RedactedStart(0, Some(<<2>>))>>,
      <<RedactedStart(0, None), ThinkingStart(1, None), ThinkingDelta(1, <<2>>)>>,
      <<ThinkingStart(0, Some(<<1>>))>>,
      <<ThinkingStart(0, Some(<<>>)), BlockStop(0)>>,
      <<ThinkingDelta(0, <<1>>), BlockStop(0)>>,
      <<SseEvent("content_block_start", Some(0), "text", None),
        SseEvent("content_block_delta", Some(0), "text_delta", None), BlockStop(0),
        SseEvent("message_stop", None, "", None)>> }

RegisterFromSseStream ==
    \E events \in SseStreams, sid \in 0..current_session :
        /\ blocks' = register_from_sse_stream(blocks, events, sid, now)
        /\ op' = "register_from_sse_stream"
        /\ req' = NoMessages /\ body' = NoMessages
        /\ stats' = NoStats /\ harvest_session' = Some(sid)
        /\ filtered_count' = 0
        /\ harvest_hashes' = DOMAIN register_from_sse_stream(NoBlocks, events, sid, now)
        /\ UNCHANGED <<current_session, current_backend, now, transitions>>
        /\ UNCHANGED regOthers

FilterRequest ==
    \E b \in Bodies :
        /\ blocks' = filter_request_blocks(blocks, current_session, b, now,
                                           DEFAULT_ORPHAN_THRESHOLD)
        /\ req' = b
        /\ body' = filter_request_body(blocks', b)
        /\ op' = "filter_request"
        /\ stats' = filter_request_stats(blocks, current_session, b, now,
                                          DEFAULT_ORPHAN_THRESHOLD)
        /\ harvest_session' = None /\ harvest_hashes' = {}
        /\ filtered_count' = removed_count(blocks', b)
        /\ UNCHANGED <<current_session, current_backend, now, transitions>>
        /\ UNCHANGED regOthers

Tick ==
    /\ now + TickSeconds <= MaxNow
    /\ now' = now + TickSeconds
    /\ op' = "tick"
    /\ req' = NoMessages /\ body' = NoMessages
    /\ stats' = NoStats /\ harvest_session' = None /\ harvest_hashes' = {}
    /\ filtered_count' = 0
    /\ UNCHANGED <<current_session, current_backend, blocks, transitions>>
    /\ UNCHANGED regOthers

RegNext ==
    \/ OnBackendSwitch
    \/ RegisterFromResponse
    \/ RegisterFromSseStream
    \/ FilterRequest
    \/ Tick

\* ---------------------------------------------------------------------
\* filter_request among concurrent tasks
\* ---------------------------------------------------------------------
\* The request tasks that share the registry.
Tasks == {"t1", "t2"}

\* The bodies the phased calls are given: those that do not open with a
\* user turn.
TxBodies ==
    { b \in Bodies : b.messages # <<>> => b.messages[1].role = "assistant" }

TxInit ==
    /\ holder = None
    /\ phase = "idle"
    /\ fr_body = NoMessages
    /\ fr_hashes = {}
    /\ fr_now = 0
    /\ fr_session = 0
    /\ fr_start = << >>
    /\ fr_left = << >>
    /\ fr_stats = NoStats
    /\ waiting = {}

\* Mutant: the registry is reached without exclusive access.
registry_free_unchecked == TRUE

\* Every registry operation takes `&mut self`: it runs only while no other
\* task holds the registry.
registry_free == holder = None

\* A task calls filter_request(body): `now` is read and the fingerprints
\* are extracted.
ExtractPhase(t) ==
    /\ registry_free
    /\ \E b \in TxBodies :
        /\ fr_body' = b
        /\ fr_hashes' = extract_request_hashes(b)
    /\ holder' = Some(t)
    /\ phase' = "extract"
    /\ fr_now' = now
    /\ fr_session' = current_session
    /\ fr_start' = blocks
    /\ fr_left' = blocks
    /\ fr_stats' = NoStats
    /\ waiting' = waiting \ {t}
    /\ UNCHANGED <<regVars, bsVars, reqVars, streamVars, rwVars, retryVars, snapVars, mmVars, respVars, ringVars, waitVars, rtVars, sseVars, ntVars, spVars, cnVars, hubVars, psVars, hsVars, smVars, erVars>>

\* Step 2 of filter_request: confirm_blocks.
ConfirmPhase ==
    /\ holder # None /\ phase = "extract"
    /\ blocks' = confirm_blocks(blocks, current_session, fr_hashes)
    /\ fr_stats' = [fr_stats EXCEPT
                      !.confirmed = confirmed_count(blocks, current_session, fr_hashes)]
    /\ fr_left' = blocks'
    /\ phase' = "confirm"
    /\ UNCHANGED <<current_session, current_backend, now, op, req, body, stats,
                   harvest_session, harvest_hashes, filtered_count, transitions>>
    /\ UNCHANGED <<holder, fr_body, fr_hashes, fr_now, fr_session, fr_start, waiting>>
    /\ UNCHANGED <<bsVars, reqVars, streamVars, rwVars, retryVars, snapVars, mmVars, respVars, ringVars, waitVars, rtVars, sseVars, ntVars, spVars, cnVars, hubVars, psVars, hsVars, smVars, erVars>>

\* Step 3 of filter_request: cleanup_cache or cleanup_old_sessions.
CleanupPhase ==
    /\ holder # None /\ phase = "confirm"
    /\ LET rules23 == has_history(fr_body) /\ fr_hashes # {}
       IN  /\ blocks' = IF has_history(fr_body)
                        THEN cleanup_cache(blocks, current_session, fr_hashes, fr_now,
                                           DEFAULT_ORPHAN_THRESHOLD)
                        ELSE cleanup_old_sessions(blocks, current_session)
           /\ fr_stats' = [fr_stats EXCEPT
                  !.old_session = old_session_count(blocks, current_session),
                  !.confirmed_unused =
                      IF rules23
                      THEN confirmed_unused_count(blocks, current_session, fr_hashes)
                      ELSE 0,
                  !.orphaned =
                      IF rules23
                      THEN orphaned_count(blocks, current_session, fr_hashes, fr_now,
                                          DEFAULT_ORPHAN_THRESHOLD)
                      ELSE 0]
    /\ fr_left' = blocks'
    /\ phase' = "cleanup"
    /\ UNCHANGED <<current_session, current_backend, now, op, req, body, stats,
                   harvest_session, harvest_hashes, filtered_count, transitions>>
    /\ UNCHANGED <<holder, fr_body, fr_hashes, fr_now, fr_session, fr_start, waiting>>
    /\ UNCHANGED <<bsVars, reqVars, streamVars, rwVars, retryVars, snapVars, mmVars, respVars, ringVars, waitVars, rtVars, sseVars, ntVars, spVars, cnVars, hubVars, psVars, hsVars, smVars, erVars>>

\* Step 4 of filter_request: filter_request_body; the call returns and the
\* task gives the registry up.
FilterPhase ==
    /\ holder # None /\ phase = "cleanup"
    /\ body' = filter_request_body(blocks, fr_body)
    /\ req' = fr_body
    /\ op' = "filter_request"
    /\ stats' = fr_stats
    /\ harvest_session' = None /\ harvest_hashes' = {}
    /\ filtered_count' = removed_count(blocks, fr_body)
    /\ holder' = None
    /\ phase' = "idle"
    /\ fr_body' = NoMessages
    /\ fr_hashes' = {}
    /\ fr_now' = 0
    /\ fr_session' = 0
    /\ fr_start' = << >>
    /\ fr_left' = << >>
    /\ fr_stats' = NoStats
    /\ waiting' = {}
    /\ UNCHANGED <<current_session, current_backend, blocks, now, transitions>>
    /\ UNCHANGED <<bsVars, reqVars, streamVars, rwVars, retryVars, snapVars, mmVars, respVars, ringVars, waitVars, rtVars, sseVars, ntVars, spVars, cnVars, hubVars, psVars, hsVars, smVars, erVars>>

\* Another task asks for the registry while it is held, and blocks.
Contend(t) ==
    /\ holder # None /\ Some(t) # holder
    /\ t \notin waiting
    /\ waiting' = waiting \cup {t}
    /\ UNCHANGED <<holder, phase, fr_body, fr_hashes, fr_now, fr_session, fr_start,
                   fr_left, fr_stats>>
    /\ UNCHANGED <<regVars, bsVars, reqVars, streamVars, rwVars, retryVars, snapVars, mmVars, respVars, ringVars, waitVars, rtVars, sseVars, ntVars, spVars, cnVars, hubVars, psVars, hsVars, smVars, erVars>>

\* The other registry operations, run by a task that got the registry.
ExclusiveSwitch == registry_free /\ OnBackendSwitch

ExclusiveRegisterResponse == registry_free /\ RegisterFromResponse

ExclusiveRegisterSse == registry_free /\ RegisterFromSseStream

TxNext ==
    \/ \E t \in Tasks : ExtractPhase(t)
    \/ ConfirmPhase
    \/ CleanupPhase
    \/ FilterPhase
    \/ \E t \in Tasks : Contend(t)
    \/ ExclusiveSwitch
    \/ ExclusiveRegisterResponse
    \/ ExclusiveRegisterSse

\* ---------------------------------------------------------------------
\* BackendState
\* ---------------------------------------------------------------------
\* A Config: the names of its backends in order, and defaults.active.
Config(names, default) == [backends |-> names, defaults_active |-> default]

Range(seq) == { seq[i] : i \in DOMAIN seq }

Configs ==
    { Config(names, default) :
        names \in SeqsUpTo(BackendIds, MaxBackends), default \in BackendIds \cup {""} }

SwitchLogEntry(old, new) == [old_backend |-> old, new_backend |-> new]

\* A call of a BackendState method, with its backend_id if it has one.
Call(method, backend_id) == [method |-> method, backend_id |-> backend_id]

\* from_config: the initial active backend, or the error.
from_config(cfg) ==
    IF cfg.backends = <<>> THEN [ok |-> FALSE, active |-> "", error |-> "NoBackendsConfigured"]
    ELSE IF cfg.defaults_active = ""
         THEN [ok |-> TRUE, active |-> cfg.backends[1], error |-> ""]
         ELSE IF cfg.defaults_active \notin Range(cfg.backends)
              THEN [ok |-> FALSE, active |-> "", error |-> "BackendNotFound"]
              ELSE [ok |-> TRUE, active |-> cfg.defaults_active, error |-> ""]

BsInit ==
    \E cfg \in Configs :
        /\ from_config(cfg).ok
        /\ active_backend = from_config(cfg).active
        /\ config = cfg
        /\ switch_log = <<SwitchLogEntry(None, Some(active_backend))>>
        /\ bs_result = "Ok"
        /\ bs_call = Call("from_config", "")

get_active_backend_config ==
    IF active_backend \in Range(config.backends) THEN "Ok" ELSE "BackendNotFound"

get_backend_config(backend_id) ==
    IF backend_id \in Range(config.backends) THEN "Ok" ELSE "BackendNotFound"

\* Mutant: the target is not looked up in the config.
switch_backend_unvalidated(backend_id) ==
    /\ bs_call' = Call("switch_backend", backend_id)
    /\ IF active_backend = backend_id
       THEN /\ bs_result' = "Ok"
            /\ UNCHANGED <<active_backend, config, switch_log>>
       ELSE /\ Len(switch_log) < MaxLog
            /\ switch_log' = Append(switch_log,
                                     SwitchLogEntry(Some(active_backend), Some(backend_id)))
            /\ active_backend' = backend_id
            /\ bs_result' = "Ok"
            /\ UNCHANGED config

switch_backend(backend_id) ==
    /\ bs_call' = Call("switch_backend", backend_id)
    /\ IF backend_id \notin Range(config.backends)
       THEN /\ bs_result' = "BackendNotFound"
            /\ UNCHANGED <<active_backend, config, switch_log>>
       ELSE IF active_backend = backend_id
            THEN /\ bs_result' = "Ok"
                 /\ UNCHANGED <<active_backend, config, switch_log>>
            ELSE /\ Len(switch_log) < MaxLog
                 /\ switch_log' = Append(switch_log,
                                          SwitchLogEntry(Some(active_backend),
                                                         Some(backend_id)))
                 /\ active_backend' = backend_id
                 /\ bs_result' = "Ok"
                 /\ UNCHANGED config

SwitchBackend ==
    /\ \E id \in BackendIds : switch_backend(id)
    /\ UNCHANGED bsOthers

\* The backend update_config switches to when the active one is gone.
update_config_new_active(new_config) ==
    IF new_config.defaults_active = ""
    THEN new_config.backends[1]
    ELSE new_config.defaults_active

update_config(new_config) ==
    /\ bs_call' = Call("update_config", "")
    /\ IF new_config.backends = <<>>
       THEN /\ bs_result' = "NoBackendsConfigured"
            /\ UNCHANGED <<active_backend, config, switch_log>>
       ELSE IF active_backend \in Range(new_config.backends)
            THEN /\ config' = new_config
                 /\ bs_result' = "Ok"
                 /\ UNCHANGED <<active_backend, switch_log>>
            ELSE /\ Len(switch_log) < MaxLog
                 /\ switch_log' = Append(switch_log,
                                          SwitchLogEntry(Some(active_backend),
                                                         Some(update_config_new_active(new_config))))
                 /\ active_backend' = update_config_new_active(new_config)
                 /\ config' = new_config
                 /\ bs_result' = "Ok"

UpdateConfig ==
    /\ \E cfg \in Configs : update_config(cfg)
    /\ UNCHANGED bsOthers

BsNext == SwitchBackend \/ UpdateConfig

\* ---------------------------------------------------------------------
\* get_config_and_active_backend among switch_backend and update_config
\* ---------------------------------------------------------------------
SnapInit ==
    /\ read_pc = "idle"
    /\ snap_config = Config(<<>>, "")
    /\ snap_active = ""
    /\ held = {}
    /\ writer = None

\* Mutant: a writer does not wait for the reader to leave.
read_lock_free_unchecked == TRUE

\* `self.inner.write()` waits until no reader holds the RwLock.
read_lock_free == read_pc # "config_read"

\* `self.inner.read()` and `self.inner.write()` wait until no writer holds it.
write_lock_free == writer = None

\* The pairs BackendState has held since the reader's call began, after a
\* writer released the lock with (cfg, active).
Observed(cfg, active) ==
    IF read_pc = "config_read" THEN held \cup {<<cfg, active>>} ELSE held

\* get_config_and_active_backend: the read lock is taken and
\* `state.config.clone()` is evaluated.
ReadConfig ==
    /\ write_lock_free
    /\ read_pc \in {"idle", "returned"}
    /\ snap_config' = config
    /\ snap_active' = ""
    /\ held' = {<<config, active_backend>>}
    /\ read_pc' = "config_read"
    /\ UNCHANGED <<writer, bsVars>>
    /\ UNCHANGED <<regVars, reqVars, streamVars, rwVars, retryVars, txVars, mmVars, respVars, ringVars, waitVars, rtVars, sseVars, ntVars, spVars, cnVars, hubVars, psVars, hsVars, smVars, erVars>>

\* `state.active_backend.clone()` is evaluated, the guard is dropped and the
\* pair is returned.
ReadActive ==
    /\ read_pc = "config_read"
    /\ snap_active' = active_backend
    /\ read_pc' = "returned"
    /\ UNCHANGED <<snap_config, held, writer, bsVars>>
    /\ UNCHANGED <<regVars, reqVars, streamVars, rwVars, retryVars, txVars, mmVars, respVars, ringVars, waitVars, rtVars, sseVars, ntVars, spVars, cnVars, hubVars, psVars, hsVars, smVars, erVars>>

\* switch_backend, from `write()` to its return.
SnapSwitch ==
    /\ read_lock_free /\ write_lock_free
    /\ \E id \in BackendIds : switch_backend(id)
    /\ held' = Observed(config', active_backend')
    /\ UNCHANGED <<read_pc, snap_config, snap_active, writer>>
    /\ UNCHANGED <<regVars, reqVars, streamVars, rwVars, retryVars, txVars, mmVars, respVars, ringVars, waitVars, rtVars, sseVars, ntVars, spVars, cnVars, hubVars, psVars, hsVars, smVars, erVars>>

\* update_config refuses an empty configuration before it takes the lock.
UpdateRefused ==
    /\ \E cfg \in Configs :
        /\ cfg.backends = <<>>
        /\ update_config(cfg)
    /\ UNCHANGED snapVars
    /\ UNCHANGED <<regVars, reqVars, streamVars, rwVars, retryVars, txVars, mmVars, respVars, ringVars, waitVars, rtVars, sseVars, ntVars, spVars, cnVars, hubVars, psVars, hsVars, smVars, erVars>>

\* update_config up to the assignment of `state.config`: the write lock is
\* taken and, when the active backend is gone, the log entry is pushed and
\* `state.active_backend` assigned.
UpdateBegin ==
    /\ read_lock_free /\ write_lock_free
    /\ \E cfg \in Configs :
        /\ cfg.backends # <<>>
        /\ writer' = Some(cfg)
        /\ IF active_backend \in Range(cfg.backends)
           THEN UNCHANGED <<active_backend, switch_log>>
           ELSE /\ Len(switch_log) < MaxLog
                /\ switch_log' = Append(switch_log,
                                        SwitchLogEntry(Some(active_backend),
                                                       Some(update_config_new_active(cfg))))
                /\ active_backend' = update_config_new_active(cfg)
    /\ UNCHANGED <<config, bs_result, bs_call>>
    /\ UNCHANGED <<read_pc, snap_config, snap_active, held>>
    /\ UNCHANGED <<regVars, reqVars, streamVars, rwVars, retryVars, txVars, mmVars, respVars, ringVars, waitVars, rtVars, sseVars, ntVars, spVars, cnVars, hubVars, psVars, hsVars, smVars, erVars>>

\* `state.config = new_config`, and the write lock is released.
UpdateCommit ==
    /\ writer # None
    /\ config' = Unwrap(writer)
    /\ bs_result' = "Ok"
    /\ bs_call' = Call("update_config", "")
    /\ writer' = None
    /\ held' = Observed(config', active_backend)
    /\ UNCHANGED <<active_backend, switch_log>>
    /\ UNCHANGED <<read_pc, snap_config, snap_active>>
    /\ UNCHANGED <<regVars, reqVars, streamVars, rwVars, retryVars, txVars, mmVars, respVars, ringVars, waitVars, rtVars, sseVars, ntVars, spVars, cnVars, hubVars, psVars, hsVars, smVars, erVars>>

SnapNext ==
    \/ ReadConfig
    \/ ReadActive
    \/ SnapSwitch
    \/ UpdateRefused
    \/ UpdateBegin
    \/ UpdateCommit

\* ---------------------------------------------------------------------
\* A request through the router and the upstream client
\* ---------------------------------------------------------------------
ReqInit ==
    /\ pc = [r \in Requests |-> "new"]
    /\ pipeline = [r \in Requests |-> "main"]
    /\ thinking_backend = [r \in Requests |-> None]
    /\ entry_active = [r \in Requests |-> None]
    /\ record_backend = [r \in Requests |-> None]
    /\ backend_override = [r \in Requests |-> None]
    /\ upstream_backend = [r \in Requests |-> None]

get_active_backend == active_backend

\* The request arrives on the main router or under /teammate.
Arrive(r) ==
    /\ pc[r] = "new"
    /\ \E p \in {"main", "teammate"} :
          /\ pipeline' = [pipeline EXCEPT ![r] = p]
          /\ pc' = [pc EXCEPT ![r] = IF p = "main" THEN "middleware" ELSE "handler"]
    /\ UNCHANGED <<thinking_backend, entry_active, record_backend, backend_override,
                   upstream_backend>>
    /\ UNCHANGED <<bsVars, reqOthers>>

\* thinking_middleware (main pipeline only), up to next.run(req).
ThinkingMiddleware(r) ==
    /\ pc[r] = "middleware"
    /\ thinking_backend' = [thinking_backend EXCEPT ![r] = Some(get_active_backend)]
    /\ pc' = [pc EXCEPT ![r] = "handler"]
    /\ UNCHANGED <<pipeline, entry_active, record_backend, backend_override,
                   upstream_backend>>
    /\ UNCHANGED <<bsVars, reqOthers>>

\* RequestSpan::set_backend
set_backend(backend) == backend

\* proxy_handler up to the call of forward; plugin_override is what the
\* observability plugins returned from pre_request.
ProxyHandler(r) ==
    /\ pc[r] = "handler"
    /\ \E plugin_override \in {None} \cup { Some(b) : b \in BackendIds } :
          LET teammate_backend ==
                  IF pipeline[r] = "teammate" THEN Some(TeammateBackend) ELSE None
              active ==
                  IF teammate_backend # None THEN Unwrap(teammate_backend)
                  ELSE get_active_backend
          IN  /\ entry_active' = [entry_active EXCEPT ![r] = Some(active)]
              /\ IF plugin_override # None
                 THEN /\ record_backend' =
                           [record_backend EXCEPT ![r] = Some(set_backend(Unwrap(plugin_override)))]
                      /\ backend_override' = [backend_override EXCEPT ![r] = plugin_override]
                 ELSE IF teammate_backend # None
                      THEN /\ record_backend' =
                                [record_backend EXCEPT
                                    ![r] = Some(set_backend(Unwrap(teammate_backend)))]
                           /\ backend_override' =
                                [backend_override EXCEPT ![r] = teammate_backend]
                      ELSE /\ record_backend' = [record_backend EXCEPT ![r] = Some(active)]
                           /\ backend_override' = [backend_override EXCEPT ![r] = None]
    /\ pc' = [pc EXCEPT ![r] = "forward"]
    /\ UNCHANGED <<pipeline, thinking_backend, upstream_backend>>
    /\ UNCHANGED <<bsVars, reqOthers>>

\* The backend forward resolves: the override when one was handed over,
\* else the active backend's configuration read now; None when the lookup
\* fails with BackendNotFound.
resolve_override(override) ==
    IF get_backend_config(Unwrap(override)) = "Ok" THEN override ELSE None

forward_backend(override) ==
    IF override # None THEN resolve_override(override)
    ELSE IF get_active_backend_config = "Ok" THEN Some(active_backend) ELSE None

\* UpstreamClient::forward: resolve the backend, then do_forward.
Forward(r) ==
    /\ pc[r] = "forward"
    /\ LET backend == forward_backend(backend_override[r])
       IN  IF backend = None
           THEN /\ pc' = [pc EXCEPT ![r] = "failed"]
                /\ UNCHANGED upstream_backend
           ELSE /\ pc' = [pc EXCEPT ![r] = "sending"]
                /\ upstream_backend' = [upstream_backend EXCEPT ![r] = backend]
    /\ UNCHANGED <<pipeline, thinking_backend, entry_active, record_backend,
                   backend_override>>
    /\ UNCHANGED <<bsVars, reqOthers>>

\* do_forward returns: the response completes, or the request fails.
Complete(r) ==
    /\ pc[r] = "sending"
    /\ \E result \in {"done", "failed"} : pc' = [pc EXCEPT ![r] = result]
    /\ UNCHANGED <<pipeline, thinking_backend, entry_active, record_backend,
                   backend_override, upstream_backend>>
    /\ UNCHANGED <<bsVars, reqOthers>>

\* The connection's next request.
NextRequest(r) ==
    /\ pc[r] \in {"done", "failed"}
    /\ pc' = [pc EXCEPT ![r] = "new"]
    /\ pipeline' = [pipeline EXCEPT ![r] = "main"]
    /\ thinking_backend' = [thinking_backend EXCEPT ![r] = None]
    /\ entry_active' = [entry_active EXCEPT ![r] = None]
    /\ record_backend' = [record_backend EXCEPT ![r] = None]
    /\ backend_override' = [backend_override EXCEPT ![r] = None]
    /\ upstream_backend' = [upstream_backend EXCEPT ![r] = None]
    /\ UNCHANGED <<bsVars, reqOthers>>

ReqNext ==
    \/ \E r \in Requests : Arrive(r)
    \/ \E r \in Requests : ThinkingMiddleware(r)
    \/ \E r \in Requests : ProxyHandler(r)
    \/ \E r \in Requests : Forward(r)
    \/ \E r \in Requests : Complete(r)
    \/ \E r \in Requests : NextRequest(r)
    \/ SwitchBackend
    \/ UpdateConfig

\* ---------------------------------------------------------------------
\* ObservedStream
\* ---------------------------------------------------------------------
\* The part of a RequestSpan the stream writes.
RequestSpan(first_byte, bytes, timed_out) ==
    [first_byte |-> first_byte, response_bytes |-> bytes, timed_out |-> timed_out]

\* ObservedStream::new
StreamInit ==
    /\ span = Some(RequestSpan(FALSE, 0, FALSE))
    /\ idle = 0
    /\ inner = "open"
    /\ dropped = FALSE
    /\ last_poll = "none"
    /\ seen = {}
    /\ polls = 0
    /\ finished = <<>>

\* Mutant: the span is read but not taken, so it stays in place.
finish_without_take(sp, records) ==
    IF sp # None
    THEN [span |-> sp, finished |-> Append(records, Unwrap(sp))]
    ELSE [span |-> sp, finished |-> records]

\* ObservedStream::finish: the span and the finish_request calls afterwards.
finish(sp, records) ==
    IF sp # None
    THEN [span |-> None, finished |-> Append(records, Unwrap(sp))]
    ELSE [span |-> sp, finished |-> records]

mark_timed_out(sp) ==
    IF sp # None THEN Some([Unwrap(sp) EXCEPT !.timed_out = TRUE]) ELSE sp

\* mark_first_byte and add_response_bytes on a chunk of len bytes.
record_chunk(sp, len) ==
    IF sp # None
    THEN Some([Unwrap(sp) EXCEPT !.first_byte = TRUE, !.response_bytes = @ + len])
    ELSE sp

Polled(result) ==
    /\ last_poll' = result
    /\ seen' = seen \cup {result}
    /\ polls' = polls + 1

CanPoll == ~dropped /\ polls < MaxPolls

\* poll_next with the deadline elapsed.
PollIdleTimeout ==
    /\ CanPoll
    /\ idle >= IdleTimeout
    /\ LET after == finish(mark_timed_out(span), finished)
       IN  /\ span' = after.span
           /\ finished' = after.finished
    /\ Polled("idle_timeout")
    /\ UNCHANGED <<idle, inner, dropped>>
    /\ UNCHANGED streamOthers

\* poll_next, the inner stream yields a chunk.
PollChunk ==
    /\ CanPoll
    /\ idle < IdleTimeout
    /\ inner = "open"
    /\ idle' = 0
    /\ span' = record_chunk(span, 1)
    /\ Polled("chunk")
    /\ UNCHANGED <<inner, dropped, finished>>
    /\ UNCHANGED streamOthers

\* poll_next, the inner stream yields an error.
PollError ==
    /\ CanPoll
    /\ idle < IdleTimeout
    /\ inner \in {"open", "failed"}
    /\ inner' = "failed"
    /\ LET after == finish(span, finished)
       IN  /\ span' = after.span
           /\ finished' = after.finished
    /\ Polled("error")
    /\ UNCHANGED <<idle, dropped>>
    /\ UNCHANGED streamOthers

\* poll_next, the inner stream is exhausted.
PollEnd ==
    /\ CanPoll
    /\ idle < IdleTimeout
    /\ inner' = "ended"
    /\ LET after == finish(span, finished)
       IN  /\ span' = after.span
           /\ finished' = after.finished
    /\ Polled("end")
    /\ UNCHANGED <<idle, dropped>>
    /\ UNCHANGED streamOthers

\* poll_next, the inner stream has nothing yet.
PollPending ==
    /\ CanPoll
    /\ idle < IdleTimeout
    /\ inner = "open"
    /\ Polled("pending")
    /\ UNCHANGED <<span, idle, inner, dropped, finished>>
    /\ UNCHANGED streamOthers

\* A second passes without a chunk.
StreamTick ==
    /\ ~dropped
    /\ idle < IdleTimeout
    /\ idle' = idle + 1
    /\ UNCHANGED <<span, inner, dropped, last_poll, seen, polls, finished>>
    /\ UNCHANGED streamOthers

\* Drop for ObservedStream
DropStream ==
    /\ ~dropped
    /\ dropped' = TRUE
    /\ LET after == finish(span, finished)
       IN  /\ span' = after.span
           /\ finished' = after.finished
    /\ UNCHANGED <<idle, inner, last_poll, seen, polls>>
    /\ UNCHANGED streamOthers

StreamNext ==
    \/ PollIdleTimeout
    \/ PollChunk
    \/ PollError
    \/ PollEnd
    \/ PollPending
    \/ StreamTick
    \/ DropStream

\* ---------------------------------------------------------------------
\* Reverse model rewriter
\* ---------------------------------------------------------------------
\* The byte sequence the fast path looks for, quotes included.
Needle == "\"message_start\""

\* ModelMapping
ModelMapping == [backend |-> "glm-5", original |-> "claude-opus-4-6"]

\* One line of a chunk, by what the rewriter can tell about its bytes:
\*   prefix    "data" when the trimmed line starts with "data:"
\*   json      the payload parses as JSON whose "type" is "message_start",
\*             parses as other JSON ("other"), or does not parse ("invalid")
\*   model     message.model when it is a string
\*   contains  the needles that occur in the bytes of the line
\*   exact     the bytes are "data: " followed by serde_json's own rendering
\*   utf8      "valid", "invalid", or "replaced" after a lossy conversion
SseLine(prefix, json, model, contains, exact, utf8) ==
    [prefix |-> prefix, json |-> json, model |-> model,
     contains |-> contains, exact |-> exact, utf8 |-> utf8]

MessageStart(model, exact) ==
    SseLine("data", "message_start", model, {Needle}, exact, "valid")

\* "type":"message\u005fstart": the same JSON, the needle absent from the bytes.
EscapedMessageStart ==
    SseLine("data", "message_start", Some(ModelMapping.backend), {}, FALSE, "valid")

Lines ==
    { MessageStart(Some(ModelMapping.backend), TRUE),
      MessageStart(Some(ModelMapping.backend), FALSE),
      MessageStart(Some("other-model"), FALSE),
      MessageStart(None, FALSE),
      EscapedMessageStart,
      SseLine("data", "other", None, {}, TRUE, "valid"),
      SseLine("data", "other", None, {Needle}, TRUE, "valid"),
      SseLine("data", "invalid", None, {Needle}, FALSE, "valid"),
      SseLine("other", "invalid", None, {}, FALSE, "valid"),
      SseLine("other", "invalid", None, {}, FALSE, "invalid") }

Chunks == SeqsUpTo(Lines, MaxLines) \ {<<>>}

\* Mutant: the fast path never skips a chunk.
contains_bytes_always(haystack, needle) ==
    TRUE

\* contains_bytes: a needle has no newline, so it lies within one line.
contains_bytes(haystack, needle) ==
    \E i \in 1..Len(haystack) : needle \in haystack[i].contains

\* String::from_utf8_lossy on one line.
from_utf8_lossy(line) ==
    IF line.utf8 = "invalid" THEN [line EXCEPT !.utf8 = "replaced"] ELSE line

\* The body of the loop over the lines: the line pushed to `result`.
rewrite_line(line, mapping) ==
    IF line.prefix = "data" /\ line.json = "message_start"
    THEN [line EXCEPT
            !.model = IF line.model = Some(mapping.backend)
                      THEN Some(mapping.original) ELSE @,
            !.contains = {Needle},
            !.exact = TRUE]
    ELSE line

line_rewritten(line, mapping) ==
    /\ line.prefix = "data"
    /\ line.json = "message_start"
    /\ line.model = Some(mapping.backend)

\* Mutant: the rebuilt text is returned whether or not a model was replaced.
rewrite_chunk_always_rebuilt(bytes, mapping) ==
    LET text == [i \in 1..Len(bytes) |-> from_utf8_lossy(bytes[i])]
    IN  [i \in 1..Len(text) |-> rewrite_line(text[i], mapping)]

\* The slow path: the chunk returned once the needle has been found.
rewrite_chunk(bytes, mapping) ==
    LET text == [i \in 1..Len(bytes) |-> from_utf8_lossy(bytes[i])]
        result == [i \in 1..Len(text) |-> rewrite_line(text[i], mapping)]
        rewritten == \E i \in 1..Len(text) : line_rewritten(text[i], mapping)
    IN  IF rewritten THEN result ELSE bytes

\* Mutant: the `done` flag is never consulted.
rewriter_ignoring_done(d, bytes, mapping) ==
    IF ~contains_bytes(bytes, Needle) THEN [done |-> d, out |-> bytes]
    ELSE [done |-> TRUE, out |-> rewrite_chunk(bytes, mapping)]

\* One call of the closure make_reverse_model_rewriter returns.
make_reverse_model_rewriter(d, bytes, mapping) ==
    IF d THEN [done |-> d, out |-> bytes]
    ELSE IF ~contains_bytes(bytes, Needle) THEN [done |-> d, out |-> bytes]
    ELSE [done |-> TRUE, out |-> rewrite_chunk(bytes, mapping)]

\* A non-streaming response body, by what reverse_model_in_response can
\* tell about its bytes:
\*   is_json   serde_json::from_slice succeeds
\*   model     the top-level "model" when it is a string
\*   exact     the bytes are serde_json's own rendering of the value
JsonBody(is_json, model, exact) ==
    [is_json |-> is_json, model |-> model, exact |-> exact]

NoJson == JsonBody(FALSE, None, FALSE)

JsonBodies ==
    { JsonBody(TRUE, m, e) :
        m \in {Some(ModelMapping.backend), Some("other-model"), None},
        e \in BOOLEAN }
        \cup { NoJson }

\* Mutant: the body is returned as it came.
reverse_model_in_response_skipped(body_bytes, mapping) ==
    body_bytes

reverse_model_in_response(body_bytes, mapping) ==
    IF ~body_bytes.is_json THEN body_bytes
    ELSE IF body_bytes.model # Some(mapping.backend) THEN body_bytes
    ELSE JsonBody(TRUE, Some(mapping.original), TRUE)

\* make_reverse_model_rewriter(mapping): a fresh closure.
RwInit ==
    /\ done = FALSE
    /\ was_done = FALSE
    /\ chunk_in = <<>>
    /\ chunk_out = <<>>
    /\ chunks_seen = 0
    /\ json_in = NoJson
    /\ json_out = NoJson

\* The stream adapter applies the rewriter to the next chunk.
RewriteChunk ==
    /\ chunks_seen < MaxChunks
    /\ \E bytes \in Chunks :
        LET r == make_reverse_model_rewriter(done, bytes, ModelMapping)
        IN  /\ done' = r.done
            /\ was_done' = done
            /\ chunk_in' = bytes
            /\ chunk_out' = r.out
    /\ chunks_seen' = chunks_seen + 1
    /\ json_in' = NoJson
    /\ json_out' = NoJson
    /\ UNCHANGED rwOthers

\* The next response gets a rewriter of its own.
NewRewriter ==
    /\ chunks_seen > 0
    /\ done' = FALSE
    /\ was_done' = FALSE
    /\ chunk_in' = <<>>
    /\ chunk_out' = <<>>
    /\ chunks_seen' = 0
    /\ json_in' = NoJson
    /\ json_out' = NoJson
    /\ UNCHANGED rwOthers

\* The next response is not a stream: its body goes through
\* reverse_model_in_response.
ReverseModelInResponse ==
    /\ \E body_bytes \in JsonBodies :
        /\ json_in' = body_bytes
        /\ json_out' = reverse_model_in_response(body_bytes, ModelMapping)
    /\ done' = FALSE
    /\ was_done' = FALSE
    /\ chunk_in' = <<>>
    /\ chunk_out' = <<>>
    /\ chunks_seen' = 0
    /\ UNCHANGED rwOthers

RwNext ==
    \/ RewriteChunk
    \/ NewRewriter
    \/ ReverseModelInResponse

\* ---------------------------------------------------------------------
\* The response of do_forward
\* ---------------------------------------------------------------------
RespInit ==
    /\ up_cl = None
    /\ up_len = 0
    /\ up_streaming = FALSE
    /\ resp_pc = "idle"
    /\ resp_cl = None
    /\ resp_received = 0

\* Bytes of the body of the error envelope ErrorResponse::from_error builds.
ErrorBodyLen == 1

\* The headers of the response: every header of the upstream response.
forwarded_content_length(upstream_cl) == upstream_cl

\* send() returned a response: its headers are copied, and a streaming body
\* is handed on as a stream. The upstream body is delimited by its
\* Content-Length or by chunked encoding.
ResponseHeaders ==
    /\ resp_pc = "idle"
    /\ \E len \in 0..MaxBody, streaming \in BOOLEAN : \E cl \in {None, Some(len)} :
        /\ up_len' = len
        /\ up_cl' = cl
        /\ up_streaming' = streaming
        /\ resp_cl' = forwarded_content_length(cl)
        /\ resp_pc' = IF streaming THEN "streaming" ELSE "buffering"
    /\ resp_received' = 0
    /\ UNCHANGED <<regVars, bsVars, reqVars, streamVars, rwVars, retryVars, txVars, snapVars, mmVars, ringVars, waitVars, rtVars, sseVars, ntVars, spVars, cnVars, hubVars, psVars, hsVars, smVars, erVars>>

\* Not a stream: bytes().await returns the whole body and Body::from sends
\* it; the HTTP stack sets the length of the buffer when no header does.
BufferedBody ==
    /\ resp_pc = "buffering"
    /\ resp_received' = up_len
    /\ resp_cl' = IF resp_cl = None THEN Some(up_len) ELSE resp_cl
    /\ resp_pc' = "complete"
    /\ UNCHANGED <<up_cl, up_len, up_streaming>>
    /\ UNCHANGED <<regVars, bsVars, reqVars, streamVars, rwVars, retryVars, txVars, snapVars, mmVars, ringVars, waitVars, rtVars, sseVars, ntVars, spVars, cnVars, hubVars, psVars, hsVars, smVars, erVars>>

\* bytes().await fails: ProxyError::Internal, and the client gets the error
\* envelope instead.
BufferFails ==
    /\ resp_pc = "buffering"
    /\ resp_received' = ErrorBodyLen
    /\ resp_cl' = Some(ErrorBodyLen)
    /\ resp_pc' = "error"
    /\ UNCHANGED <<up_cl, up_len, up_streaming>>
    /\ UNCHANGED <<regVars, bsVars, reqVars, streamVars, rwVars, retryVars, txVars, snapVars, mmVars, ringVars, waitVars, rtVars, sseVars, ntVars, spVars, cnVars, hubVars, psVars, hsVars, smVars, erVars>>

\* The stream yields the next byte of the upstream body.
StreamByte ==
    /\ resp_pc = "streaming"
    /\ resp_received < up_len
    /\ resp_received' = resp_received + 1
    /\ UNCHANGED <<up_cl, up_len, up_streaming, resp_pc, resp_cl>>
    /\ UNCHANGED <<regVars, bsVars, reqVars, streamVars, rwVars, retryVars, txVars, snapVars, mmVars, ringVars, waitVars, rtVars, sseVars, ntVars, spVars, cnVars, hubVars, psVars, hsVars, smVars, erVars>>

\* The stream ends after the last byte.
StreamEnds ==
    /\ resp_pc = "streaming"
    /\ resp_received = up_len
    /\ resp_pc' = "complete"
    /\ UNCHANGED <<up_cl, up_len, up_streaming, resp_cl, resp_received>>
    /\ UNCHANGED <<regVars, bsVars, reqVars, streamVars, rwVars, retryVars, txVars, snapVars, mmVars, ringVars, waitVars, rtVars, sseVars, ntVars, spVars, cnVars, hubVars, psVars, hsVars, smVars, erVars>>

\* The stream yields an error before the last byte: the response ends there.
StreamFails ==
    /\ resp_pc = "streaming"
    /\ resp_received < up_len
    /\ resp_pc' = "aborted"
    /\ UNCHANGED <<up_cl, up_len, up_streaming, resp_cl, resp_received>>
    /\ UNCHANGED <<regVars, bsVars, reqVars, streamVars, rwVars, retryVars, txVars, snapVars, mmVars, ringVars, waitVars, rtVars, sseVars, ntVars, spVars, cnVars, hubVars, psVars, hsVars, smVars, erVars>>

\* The next request of the connection.
NextResponse ==
    /\ resp_pc \in {"complete", "aborted", "error"}
    /\ up_cl' = None
    /\ up_len' = 0
    /\ up_streaming' = FALSE
    /\ resp_pc' = "idle"
    /\ resp_cl' = None
    /\ resp_received' = 0
    /\ UNCHANGED <<regVars, bsVars, reqVars, streamVars, rwVars, retryVars, txVars, snapVars, mmVars, ringVars, waitVars, rtVars, sseVars, ntVars, spVars, cnVars, hubVars, psVars, hsVars, smVars, erVars>>

RespNext ==
    \/ ResponseHeaders
    \/ BufferedBody
    \/ BufferFails
    \/ StreamByte
    \/ StreamEnds
    \/ StreamFails
    \/ NextResponse

\* ---------------------------------------------------------------------
\* RequestRingBuffer
\* ---------------------------------------------------------------------
\* ObservabilityHub::new(1000) in ProxyServer::new.
HubCapacity == 1000

\* A RequestRecord, by its id and its status.
RequestRecord(id, status) == [id |-> id, status |-> status]

Statuses == {200, 500}

\* RequestRingBuffer::new(capacity)
RingInit ==
    /\ ring_capacity \in 0..MaxCapacity
    /\ ring_records = <<>>
    /\ ring_pushed = <<>>

\* The ring of the hub the server builds, nothing pushed.
RingIdle ==
    /\ ring_capacity = HubCapacity
    /\ ring_records = <<>>
    /\ ring_pushed = <<>>

\* VecDeque::pop_front: nothing happens on an empty deque.
pop_front(records) ==
    IF records = <<>> THEN records ELSE Tail(records)

\* RequestRingBuffer::push
push(capacity, records, record) ==
    Append(IF Len(records) = capacity THEN pop_front(records) ELSE records, record)

\* finish_request pushes the finalized record of the next request.
Push ==
    /\ Len(ring_pushed) < MaxPushes
    /\ \E status \in Statuses :
        LET record == RequestRecord(Len(ring_pushed) + 1, status) IN
        /\ ring_records' = push(ring_capacity, ring_records, record)
        /\ ring_pushed' = Append(ring_pushed, record)
    /\ UNCHANGED ring_capacity
    /\ UNCHANGED <<regVars, bsVars, reqVars, streamVars, rwVars, retryVars, txVars, snapVars, mmVars, respVars, waitVars, rtVars, sseVars, ntVars, spVars, cnVars, hubVars, psVars, hsVars, smVars, erVars>>

RingNext ==
    Push

\* ---------------------------------------------------------------------
\* ShutdownManager::wait_for_connections
\* ---------------------------------------------------------------------
\* `tokio::time::sleep(Duration::from_millis(100))`
PollInterval == 100

\* `wait_for_connections(Duration::from_secs(10))` in ProxyServer::run
GraceSeconds == 10

MillisPerSecond == 1000

GracePeriod == GraceSeconds * MillisPerSecond

\* The timeouts the wait is called with: the server's grace period, and
\* short ones that are and are not multiples of the poll interval.
Timeouts ==
    {GracePeriod} \cup {k * (PollInterval \div 2) : k \in 0..MaxHalfIntervals}

\* No wait under way: ShutdownManager::new.
WaitIdle ==
    /\ active_connections = 0
    /\ wc_pc = "returned"
    /\ wc_timeout = 0
    /\ wc_elapsed = 0
    /\ wc_result = "none"

\* wait_for_connections(timeout) is entered: `start = Instant::now()`.
WaitInit ==
    /\ active_connections \in 0..MaxConnections
    /\ wc_pc = "loop"
    /\ wc_timeout \in Timeouts
    /\ wc_elapsed = 0
    /\ wc_result = "none"

\* Mutant: the loop goes on while connections remain.
loop_continues_while_active(elapsed, timeout, active) ==
    elapsed < timeout \/ active > 0

\* `while start.elapsed() < timeout`
loop_continues(elapsed, timeout, active) ==
    elapsed < timeout

\* One pass of the loop up to its sleep: the loop condition, the load of
\* the counter, the return when it is 0; after the loop, the forced return.
Poll ==
    /\ wc_pc = "loop"
    /\ IF loop_continues(wc_elapsed, wc_timeout, active_connections)
       THEN IF active_connections = 0
            THEN wc_pc' = "returned" /\ wc_result' = "stopped"
            ELSE wc_pc' = "sleep" /\ wc_result' = wc_result
       ELSE wc_pc' = "returned" /\ wc_result' = "forced"
    /\ UNCHANGED <<active_connections, wc_timeout, wc_elapsed>>
    /\ UNCHANGED <<regVars, bsVars, reqVars, streamVars, rwVars, retryVars, txVars, snapVars, mmVars, respVars, ringVars, rtVars, sseVars, ntVars, spVars, cnVars, hubVars, psVars, hsVars, smVars, erVars>>

\* The sleep of one poll interval is over.
Sleep ==
    /\ wc_pc = "sleep"
    /\ wc_elapsed' = wc_elapsed + PollInterval
    /\ wc_pc' = "loop"
    /\ UNCHANGED <<active_connections, wc_timeout, wc_result>>
    /\ UNCHANGED <<regVars, bsVars, reqVars, streamVars, rwVars, retryVars, txVars, snapVars, mmVars, respVars, ringVars, rtVars, sseVars, ntVars, spVars, cnVars, hubVars, psVars, hsVars, smVars, erVars>>

\* decrement_connections: a connection closes while the wait goes on.
Disconnect ==
    /\ wc_pc # "returned"
    /\ active_connections > 0
    /\ active_connections' = active_connections - 1
    /\ UNCHANGED <<wc_pc, wc_timeout, wc_elapsed, wc_result>>
    /\ UNCHANGED <<regVars, bsVars, reqVars, streamVars, rwVars, retryVars, txVars, snapVars, mmVars, respVars, ringVars, rtVars, sseVars, ntVars, spVars, cnVars, hubVars, psVars, hsVars, smVars, erVars>>

WaitStep ==
    \/ Poll
    \/ Sleep

WaitNext ==
    \/ Poll
    \/ Sleep
    \/ Disconnect

\* ---------------------------------------------------------------------
\* The router of build_router
\* ---------------------------------------------------------------------
\* A path is a sequence of characters; "teammate" and "health" stand for
\* the letters of the two words, "s" for any other letter.
PathChars == {"/", "teammate", "health", "s"}

\* Request paths: absolute.
Paths == {p \in SeqsUpTo(PathChars, MaxPath) : p # <<>> /\ p[1] = "/"}

\* `router.nest("/teammate", teammate)`
TeammatePrefix == <<"/", "teammate">>

\* `.route("/health", get(health_handler))`
HealthPath == <<"/", "health">>

StartsWith(path, prefix) ==
    /\ Len(path) >= Len(prefix)
    /\ SubSeq(path, 1, Len(prefix)) = prefix

\* Mutant: the nested router is matched by string prefix.
nest_matches_string_prefix(prefix, path) ==
    StartsWith(path, prefix)

\* Router::nest(prefix, _) mounts the nested router at three routes: the
\* prefix itself, the prefix with a trailing slash, and the prefix followed
\* by a slash and a non-empty rest.
nest_matches(prefix, path) ==
    \/ path = prefix
    \/ path = prefix \o <<"/">>
    \/ /\ Len(path) > Len(prefix) + 1
       /\ SubSeq(path, 1, Len(prefix) + 1) = prefix \o <<"/">>

\* The pipeline of the router that takes a request: a route before the
\* fallback of the merged main router.
select_pipeline(teams, path) ==
    IF path = HealthPath THEN "health"
    ELSE IF teams # None /\ nest_matches(TeammatePrefix, path) THEN "teammate"
    ELSE "main"

\* A server whose router has taken no request.
RtInit ==
    /\ rt_teams \in {None, Some("cheap")}
    /\ rt_path = <<>>
    /\ rt_pipeline = "none"
    /\ rt_override = None
    /\ rt_backend = None

RtIdle ==
    /\ rt_teams = None
    /\ rt_path = <<>>
    /\ rt_pipeline = "none"
    /\ rt_override = None
    /\ rt_backend = None

\* A request: the router picks the pipeline, the teammate pipeline adds
\* Extension(BackendOverride(teammate_backend)), and proxy_handler takes
\* the override or else the active backend.
Dispatch ==
    \E path \in Paths :
        LET to == select_pipeline(rt_teams, path)
            teammate_backend == IF to = "teammate" THEN rt_teams ELSE None
        IN  /\ rt_path' = path
            /\ rt_pipeline' = to
            /\ rt_override' = teammate_backend
            /\ rt_backend' =
                   IF to = "health" THEN None
                   ELSE IF teammate_backend # None THEN teammate_backend
                   ELSE Some(active_backend)
            /\ UNCHANGED rt_teams
            /\ UNCHANGED <<regVars, bsVars, reqVars, streamVars, rwVars, retryVars, txVars, snapVars, mmVars, respVars, ringVars, waitVars, sseVars, ntVars, spVars, cnVars, hubVars, psVars, hsVars, smVars, erVars>>

RtNext ==
    Dispatch

\* ---------------------------------------------------------------------
\* Model map of one request: forward on the request, reverse on the response
\* ---------------------------------------------------------------------
Families == {"opus", "sonnet"}

\* The client model and the family slot it falls in, if any.
ClientModels == {"claude-opus-4-6", "claude-sonnet-4-5", "custom-model"}

family(client_model) ==
    CASE client_model = "claude-opus-4-6" -> Some("opus")
      [] client_model = "claude-sonnet-4-5" -> Some("sonnet")
      [] OTHER -> None

\* A backend's model map: per family slot, the backend model id if set.
ModelMaps == [Families -> {None, Some("glm-5"), Some("glm-4-air")}]

\* The mapping pair of a request: (backend model, client model) when the
\* backend has a slot for the client model's family.
resolve_model(slots, client_model) ==
    IF family(client_model) # None /\ slots[Unwrap(family(client_model))] # None
    THEN Some([backend |-> Unwrap(slots[Unwrap(family(client_model))]),
               original |-> client_model])
    ELSE None

NoExchange ==
    /\ mm_pc = "idle"
    /\ mm_client = ""
    /\ mm_pair = None
    /\ mm_upstream = ""
    /\ mm_reply = None
    /\ mm_delivered = None

MmInit == mm_slots \in ModelMaps /\ NoExchange

MmIdle == mm_slots = [f \in Families |-> None] /\ NoExchange

\* Request entry: the pair is computed once, and the request goes upstream
\* with the backend model.
ForwardMap ==
    /\ mm_pc = "idle"
    /\ \E c \in ClientModels :
        LET pair == resolve_model(mm_slots, c)
        IN  /\ mm_client' = c
            /\ mm_pair' = pair
            /\ mm_upstream' = IF pair # None THEN Unwrap(pair).backend ELSE c
    /\ mm_pc' = "sent"
    /\ UNCHANGED <<mm_slots, mm_reply, mm_delivered>>
    /\ UNCHANGED <<regVars, bsVars, reqVars, streamVars, rwVars, retryVars, txVars, snapVars, respVars, ringVars, waitVars, rtVars, sseVars, ntVars, spVars, cnVars, hubVars, psVars, hsVars, smVars, erVars>>

\* The active backend or the configuration changes: another model map.
ChangeModelMap ==
    /\ \E m \in ModelMaps : m # mm_slots /\ mm_slots' = m
    /\ UNCHANGED <<mm_pc, mm_client, mm_pair, mm_upstream, mm_reply, mm_delivered>>
    /\ UNCHANGED <<regVars, bsVars, reqVars, streamVars, rwVars, retryVars, txVars, snapVars, respVars, ringVars, waitVars, rtVars, sseVars, ntVars, spVars, cnVars, hubVars, psVars, hsVars, smVars, erVars>>

\* The models a response may carry: the one that was sent, or another.
ReplyModels == {mm_upstream, "other-model"}

\* A non-streaming response is buffered and goes through
\* reverse_model_in_response with the request's pair.
JsonReply ==
    /\ mm_pc = "sent"
    /\ \E m \in ReplyModels, e \in BOOLEAN :
        LET body_bytes == JsonBody(TRUE, Some(m), e)
            out == IF mm_pair # None
                   THEN reverse_model_in_response(body_bytes, Unwrap(mm_pair))
                   ELSE body_bytes
        IN  /\ mm_reply' = Some(m)
            /\ mm_delivered' = out.model
    /\ mm_pc' = "delivered"
    /\ UNCHANGED <<mm_slots, mm_client, mm_pair, mm_upstream>>
    /\ UNCHANGED <<regVars, bsVars, reqVars, streamVars, rwVars, retryVars, txVars, snapVars, respVars, ringVars, waitVars, rtVars, sseVars, ntVars, spVars, cnVars, hubVars, psVars, hsVars, smVars, erVars>>

\* A streaming response: its message_start chunk goes through the closure
\* that owns the request's pair.
SseReply ==
    /\ mm_pc = "sent"
    /\ \E m \in ReplyModels, e \in BOOLEAN :
        LET bytes == <<MessageStart(Some(m), e)>>
            out == IF mm_pair # None
                   THEN make_reverse_model_rewriter(FALSE, bytes, Unwrap(mm_pair)).out
                   ELSE bytes
        IN  /\ mm_reply' = Some(m)
            /\ mm_delivered' = out[1].model
    /\ mm_pc' = "delivered"
    /\ UNCHANGED <<mm_slots, mm_client, mm_pair, mm_upstream>>
    /\ UNCHANGED <<regVars, bsVars, reqVars, streamVars, rwVars, retryVars, txVars, snapVars, respVars, ringVars, waitVars, rtVars, sseVars, ntVars, spVars, cnVars, hubVars, psVars, hsVars, smVars, erVars>>

\* The next request of the connection.
NextExchange ==
    /\ mm_pc = "delivered"
    /\ mm_pc' = "idle"
    /\ mm_client' = ""
    /\ mm_pair' = None
    /\ mm_upstream' = ""
    /\ mm_reply' = None
    /\ mm_delivered' = None
    /\ UNCHANGED mm_slots
    /\ UNCHANGED <<regVars, bsVars, reqVars, streamVars, rwVars, retryVars, txVars, snapVars, respVars, ringVars, waitVars, rtVars, sseVars, ntVars, spVars, cnVars, hubVars, psVars, hsVars, smVars, erVars>>

MmNext ==
    \/ ForwardMap
    \/ ChangeModelMap
    \/ JsonReply
    \/ SseReply
    \/ NextExchange

\* ---------------------------------------------------------------------
\* Retry loop of UpstreamClient::do_forward
\* ---------------------------------------------------------------------
\* A reqwest::Error, by the two tests the loop applies to it.
SendError(is_connect, is_timeout) ==
    [is_connect |-> is_connect, is_timeout |-> is_timeout]

SendErrors == {SendError(c, t) : c \in BOOLEAN, t \in BOOLEAN}

BackoffBases == {0, DefaultBackoffBase}

\* A Duration of base * 2^shift milliseconds. The factor stays an exponent:
\* 2^31 is a u32 and is beyond the integers TLC computes with.
Backoff(base, shift) == [base |-> base, shift |-> shift]

\* `1u32 << n` where it does not panic: the shift amount is taken modulo the
\* width of the type. The result is 2 to the power returned here.
shl_u32(n) ==
    n % ShiftWidth

\* `1u32 << n` overflows: a panic where the build checks overflow.
shl_overflows(n) ==
    n >= ShiftWidth

\* Mutant: only connect errors are retried.
should_retry_connect_only(err) ==
    err.is_connect

\* `err.is_connect() || err.is_timeout()`
should_retry(err) ==
    err.is_connect \/ err.is_timeout

\* The state before do_forward's loop: `let mut attempt = 0u32`.
LoopStart ==
    /\ attempt = 0
    /\ sends = 0
    /\ sleeps = <<>>
    /\ last_err = None
    /\ outcome = "running"

\* UpstreamClient::new with a pool configuration, in either build profile.
RetryInit ==
    /\ max_retries \in 0..MaxRetries
    /\ retry_backoff_base \in BackoffBases
    /\ overflow_checks \in BOOLEAN
    /\ LoopStart

\* The client with PoolConfig::default(), no request under way.
RetryIdle ==
    /\ max_retries = DefaultMaxRetries
    /\ retry_backoff_base = DefaultBackoffBase
    /\ overflow_checks = FALSE
    /\ LoopStart

\* One iteration: send() returns Ok(response), `break response`.
SendOk ==
    /\ outcome = "running"
    /\ sends' = sends + 1
    /\ outcome' = "response"
    /\ UNCHANGED <<max_retries, retry_backoff_base, overflow_checks, attempt,
                   sleeps, last_err>>
    /\ UNCHANGED retryOthers

\* One iteration: send() fails, the loop sleeps and goes round again.
SendRetry ==
    /\ outcome = "running"
    /\ \E err \in SendErrors :
        /\ should_retry(err) /\ attempt < max_retries
        /\ ~(overflow_checks /\ shl_overflows(attempt))
        /\ last_err' = Some(err)
    /\ sends' = sends + 1
    /\ sleeps' = Append(sleeps, Backoff(retry_backoff_base, shl_u32(attempt)))
    /\ attempt' = attempt + 1
    /\ UNCHANGED <<max_retries, retry_backoff_base, overflow_checks, outcome>>
    /\ UNCHANGED retryOthers

\* One iteration: send() fails retriably and `1u32 << attempt` panics.
SendPanic ==
    /\ outcome = "running"
    /\ \E err \in SendErrors :
        /\ should_retry(err) /\ attempt < max_retries
        /\ overflow_checks /\ shl_overflows(attempt)
        /\ last_err' = Some(err)
    /\ sends' = sends + 1
    /\ outcome' = "panic"
    /\ UNCHANGED <<max_retries, retry_backoff_base, overflow_checks, attempt, sleeps>>
    /\ UNCHANGED retryOthers

\* One iteration: send() fails and the loop returns the error.
SendFail ==
    /\ outcome = "running"
    /\ \E err \in SendErrors :
        /\ ~(should_retry(err) /\ attempt < max_retries)
        /\ last_err' = Some(err)
        /\ outcome' = IF err.is_timeout THEN "request_timeout" ELSE "connection_error"
    /\ sends' = sends + 1
    /\ UNCHANGED <<max_retries, retry_backoff_base, overflow_checks, attempt, sleeps>>
    /\ UNCHANGED retryOthers

RetryNext ==
    \/ SendOk
    \/ SendRetry
    \/ SendPanic
    \/ SendFail


\* ---------------------------------------------------------------------
\* What a stream of events conveys
\* ---------------------------------------------------------------------
\* The event opens a thinking block at index i.
OpensThinking(e, i) ==
    e.event_type = "content_block_start" /\ e.kind = "thinking" /\ e.index = Some(i)

StopsBlock(e, i) == e.event_type = "content_block_stop" /\ e.index = Some(i)

\* The text a thinking_delta for index i brings.
DeltaText(e, i) ==
    IF e.event_type = "content_block_delta" /\ e.kind = "thinking_delta"
           /\ e.index = Some(i) /\ e.text # None
    THEN Unwrap(e.text) ELSE <<>>

\* The first position after p where the block at index i is stopped or
\* opened again, or the position after the last event.
BlockEnd(events, i, p) ==
    LET later == { q \in (p + 1)..Len(events) :
                       StopsBlock(events[q], i) \/ OpensThinking(events[q], i) }
    IN  IF later = {} THEN Len(events) + 1
        ELSE CHOOSE q \in later : \A r \in later : q <= r

RECURSIVE DeltasBetween(_, _, _, _)
DeltasBetween(events, i, from, to) ==
    IF from > to THEN <<>>
    ELSE DeltaText(events[from], i) \o DeltasBetween(events, i, from + 1, to)

\* The texts of the thinking blocks of the stream that are stopped or still
\* open when the events end: the opening text, then the deltas in order.
ConveyedTexts(events) ==
    { text \in
        { (IF events[p].text # None THEN Unwrap(events[p].text) ELSE <<>>)
              \o DeltasBetween(events, i, p + 1, BlockEnd(events, i, p) - 1) :
          <<p, i>> \in { pi \in (DOMAIN events) \X {0, 1} :
                  /\ OpensThinking(events[pi[1]], pi[2])
                  /\ LET q == BlockEnd(events, pi[2], pi[1])
                     IN  q > Len(events) \/ StopsBlock(events[q], pi[2]) } } :
      text # <<>> }

\* ---------------------------------------------------------------------
\* A streamed response harvested and echoed in the next request
\* ---------------------------------------------------------------------
\* The events of a stream: thinking blocks at two indexes opening with and
\* without text, deltas, stops, and an event the registry has no use for.
StreamEvents ==
    { ThinkingStart(0, None), ThinkingStart(0, Some(<<1>>)), ThinkingStart(1, None),
      ThinkingDelta(0, <<1>>), ThinkingDelta(0, <<2>>), ThinkingDelta(1, <<2>>),
      BlockStop(0), BlockStop(1),
      SseEvent("message_stop", None, "", None) }

EventSeqs == SeqsUpTo(StreamEvents, MaxEvents) \ { <<>> }

\* No stream harvested.
SseIdle ==
    /\ sse_events = <<>>
    /\ sse_registered = NoBlocks
    /\ sse_echo = None

\* The request that sends a thinking block back: an assistant turn with the
\* block, then a user turn.
EchoBody(text) ==
    Body(<<Message("assistant", Array(<<Item("thinking", Some(text))>>)),
           Message("user", NonArray)>>)

\* register_from_sse_stream(events, session_id) on a registry that holds
\* nothing, with the session of the request.
HarvestStream ==
    /\ sse_events = <<>>
    /\ \E events \in EventSeqs :
        /\ sse_events' = events
        /\ sse_registered' =
               register_from_sse_stream(NoBlocks, events, current_session, now)
    /\ UNCHANGED sse_echo
    /\ UNCHANGED <<regVars, bsVars, reqVars, streamVars, rwVars, retryVars, txVars, snapVars, mmVars, respVars, ringVars, waitVars, rtVars, ntVars, spVars, cnVars, hubVars, psVars, hsVars, smVars, erVars>>

\* filter_request on the next request of the session, which carries one of
\* the thinking texts the stream conveyed.
EchoRequest ==
    /\ sse_events # <<>> /\ sse_echo = None
    /\ \E text \in ConveyedTexts(sse_events) :
        LET b == EchoBody(text)
            left == filter_request_blocks(sse_registered, current_session, b, now,
                                          DEFAULT_ORPHAN_THRESHOLD)
            filtered == filter_request_body(left, b)
        IN  /\ sse_registered' = left
            /\ sse_echo' = Some([text |-> text,
                                 kept |-> filtered.messages[1].content.items
                                              = b.messages[1].content.items])
    /\ UNCHANGED sse_events
    /\ UNCHANGED <<regVars, bsVars, reqVars, streamVars, rwVars, retryVars, txVars, snapVars, mmVars, respVars, ringVars, waitVars, rtVars, ntVars, spVars, cnVars, hubVars, psVars, hsVars, smVars, erVars>>

\* The next response of the session.
NextStream ==
    /\ sse_events # <<>>
    /\ sse_events' = <<>>
    /\ sse_registered' = NoBlocks
    /\ sse_echo' = None
    /\ UNCHANGED <<regVars, bsVars, reqVars, streamVars, rwVars, retryVars, txVars, snapVars, mmVars, respVars, ringVars, waitVars, rtVars, ntVars, spVars, cnVars, hubVars, psVars, hsVars, smVars, erVars>>

SseNext ==
    \/ HarvestStream
    \/ EchoRequest
    \/ NextStream


\* ---------------------------------------------------------------------
\* Requests that tell the registry which backend is active
\* ---------------------------------------------------------------------
\* The registry as on_backend_switch sees it.
Notified(session, backend) == [session |-> session, backend |-> backend]

\* ThinkingRegistry::on_backend_switch on that pair.
notified_after(reg, new_backend) ==
    IF reg.backend # new_backend
    THEN Notified(reg.session + 1, new_backend)
    ELSE reg

\* No request has come: ThinkingRegistry::new and the first backend.
NtIdle ==
    /\ nt_read = [t \in Tasks |-> None]
    /\ nt_active = "anthropic"
    /\ nt_registry = Notified(0, "")
    /\ nt_changes = 0
    /\ nt_fresh = FALSE

\* thinking_middleware: `state.backend_state.get_active_backend()`; the read
\* lock is given up when the call returns.
NtRead(t) ==
    /\ nt_read[t] = None
    /\ nt_read' = [nt_read EXCEPT ![t] = Some(nt_active)]
    /\ nt_fresh' = TRUE
    /\ UNCHANGED <<nt_active, nt_registry, nt_changes>>
    /\ UNCHANGED <<regVars, bsVars, reqVars, streamVars, rwVars, retryVars, txVars, snapVars, mmVars, respVars, ringVars, waitVars, rtVars, sseVars, spVars, cnVars, hubVars, psVars, hsVars, smVars, erVars>>

\* thinking_middleware: `begin_request(&backend, ..)` tells the registry the
\* backend the task read.
NtNotify(t) ==
    /\ nt_read[t] # None
    /\ nt_registry' = notified_after(nt_registry, Unwrap(nt_read[t]))
    /\ nt_read' = [nt_read EXCEPT ![t] = None]
    /\ UNCHANGED <<nt_active, nt_changes, nt_fresh>>
    /\ UNCHANGED <<regVars, bsVars, reqVars, streamVars, rwVars, retryVars, txVars, snapVars, mmVars, respVars, ringVars, waitVars, rtVars, sseVars, spVars, cnVars, hubVars, psVars, hsVars, smVars, erVars>>

\* switch_backend to a backend that is not the active one.
NtSwitch ==
    /\ nt_changes < MaxChanges
    /\ \E id \in BackendNames :
        /\ id # nt_active
        /\ nt_active' = id
    /\ nt_changes' = nt_changes + 1
    /\ nt_fresh' = FALSE
    /\ UNCHANGED <<nt_read, nt_registry>>
    /\ UNCHANGED <<regVars, bsVars, reqVars, streamVars, rwVars, retryVars, txVars, snapVars, mmVars, respVars, ringVars, waitVars, rtVars, sseVars, spVars, cnVars, hubVars, psVars, hsVars, smVars, erVars>>

NtNext ==
    \/ \E t \in Tasks : NtRead(t)
    \/ \E t \in Tasks : NtNotify(t)
    \/ NtSwitch


\* ---------------------------------------------------------------------
\* One response stream cut into chunks
\* ---------------------------------------------------------------------
\* Where a chunk boundary falls in a line: nowhere, or in its payload
\* before, inside or after the bytes of the needle.
Cuts == {"before", "inside", "after"}

\* The bytes of a line up to the boundary: the payload is cut short and
\* does not parse.
LineHead(line, cut) ==
    [line EXCEPT !.json = "invalid", !.model = None, !.exact = FALSE,
                 !.contains = IF cut = "after" THEN line.contains ELSE {}]

\* The bytes of a line from the boundary on: they start in the payload.
LineTail(line, cut) ==
    [line EXCEPT !.prefix = "other", !.json = "invalid", !.model = None,
                 !.exact = FALSE,
                 !.contains = IF cut = "before" THEN line.contains ELSE {}]

\* The bytes the client has once both parts of a line have arrived.
joined(line, cut, head_out, tail_out) ==
    IF head_out = LineHead(line, cut) /\ tail_out = LineTail(line, cut)
    THEN line
    ELSE [line EXCEPT !.exact = FALSE, !.utf8 = "replaced"]

Streams == SeqsUpTo(Lines, MaxStream) \ {<<>>}

SplitIdle ==
    /\ sp_stream = <<>>
    /\ sp_cut = "none"
    /\ sp_done = FALSE
    /\ sp_out = <<>>

\* A response stream and a fresh closure for it.
SplitInit ==
    /\ sp_stream \in Streams
    /\ sp_cut = "none"
    /\ sp_done = FALSE
    /\ sp_out = <<>>

\* Lines of the stream that have arrived whole.
Arrived == IF sp_cut = "none" THEN Len(sp_out) ELSE Len(sp_out) - 1

\* The stream adapter hands the closure the next chunk: the rest of a line
\* begun in the chunk before, n whole lines, and the beginning of the line
\* after them when the boundary falls in it.
FeedChunk ==
    /\ Arrived < Len(sp_stream)
    /\ LET first == Arrived + 1
           rest == IF sp_cut = "none" THEN <<>>
                   ELSE <<LineTail(sp_stream[first], sp_cut)>>
           from == IF sp_cut = "none" THEN first ELSE first + 1
       IN  \E n \in 0..(Len(sp_stream) - from + 1), cut \in Cuts \cup {"none"} :
            /\ cut # "none" =>
                /\ from + n <= Len(sp_stream)
                /\ sp_stream[from + n].utf8 = "valid"
            /\ LET whole == SubSeq(sp_stream, from, from + n - 1)
                   begun == IF cut = "none" THEN <<>>
                            ELSE <<LineHead(sp_stream[from + n], cut)>>
                   bytes == rest \o whole \o begun
                   r == make_reverse_model_rewriter(sp_done, bytes, ModelMapping)
                   k == Len(rest)
                   kept == IF sp_cut = "none" THEN sp_out
                           ELSE SubSeq(sp_out, 1, Len(sp_out) - 1)
                                \o <<joined(sp_stream[first], sp_cut,
                                            sp_out[Len(sp_out)], r.out[1])>>
               IN  /\ bytes # <<>>
                   /\ sp_done' = r.done
                   /\ sp_out' = kept \o SubSeq(r.out, k + 1, Len(r.out))
                   /\ sp_cut' = cut
    /\ UNCHANGED sp_stream
    /\ UNCHANGED <<regVars, bsVars, reqVars, streamVars, rwVars, retryVars, txVars, snapVars, mmVars, respVars, ringVars, waitVars, rtVars, sseVars, ntVars, cnVars, hubVars, psVars, hsVars, smVars, erVars>>

SplitNext == FeedChunk


\* ---------------------------------------------------------------------
\* ConnectionCounter and ConnectionGuard
\* ---------------------------------------------------------------------
\* usize::MAX, which fetch_sub leaves in a counter that held 0; it is
\* written as the integer below 0.
Wrapped == 0 - 1

\* AtomicUsize::fetch_add(1) and fetch_sub(1)
fetch_add(c) == IF c = Wrapped THEN 0 ELSE c + 1
fetch_sub(c) == IF c = 0 THEN Wrapped ELSE c - 1

\* ShutdownManager::new, no call made.
CnIdle ==
    /\ cn_connections = 0
    /\ cn_futures = 0
    /\ cn_guards = 0

\* ConnectionCounter::call: the counter is incremented before the future
\* is boxed and returned.
CounterCall ==
    /\ cn_connections < MaxOpen
    /\ cn_connections' = fetch_add(cn_connections)
    /\ cn_futures' = cn_futures + 1
    /\ UNCHANGED cn_guards
    /\ UNCHANGED <<regVars, bsVars, reqVars, streamVars, rwVars, retryVars, txVars, snapVars, mmVars, respVars, ringVars, waitVars, rtVars, sseVars, ntVars, spVars, hubVars, psVars, hsVars, smVars, erVars>>

\* The future resolves to Ok: the service is wrapped in a ConnectionGuard.
FutureOk ==
    /\ cn_futures > 0
    /\ cn_futures' = cn_futures - 1
    /\ cn_guards' = cn_guards + 1
    /\ UNCHANGED cn_connections
    /\ UNCHANGED <<regVars, bsVars, reqVars, streamVars, rwVars, retryVars, txVars, snapVars, mmVars, respVars, ringVars, waitVars, rtVars, sseVars, ntVars, spVars, hubVars, psVars, hsVars, smVars, erVars>>

\* The future resolves to Err: decrement_connections.
FutureErr ==
    /\ cn_futures > 0
    /\ cn_futures' = cn_futures - 1
    /\ cn_connections' = fetch_sub(cn_connections)
    /\ UNCHANGED cn_guards
    /\ UNCHANGED <<regVars, bsVars, reqVars, streamVars, rwVars, retryVars, txVars, snapVars, mmVars, respVars, ringVars, waitVars, rtVars, sseVars, ntVars, spVars, hubVars, psVars, hsVars, smVars, erVars>>

\* The future is dropped before it resolves: the async block never runs
\* to either arm, and it owns nothing whose Drop touches the counter.
FutureDropped ==
    /\ cn_futures > 0
    /\ cn_futures' = cn_futures - 1
    /\ UNCHANGED <<cn_connections, cn_guards>>
    /\ UNCHANGED <<regVars, bsVars, reqVars, streamVars, rwVars, retryVars, txVars, snapVars, mmVars, respVars, ringVars, waitVars, rtVars, sseVars, ntVars, spVars, hubVars, psVars, hsVars, smVars, erVars>>

\* Clone for ConnectionGuard
GuardClone ==
    /\ cn_guards > 0
    /\ cn_connections < MaxOpen
    /\ cn_connections' = fetch_add(cn_connections)
    /\ cn_guards' = cn_guards + 1
    /\ UNCHANGED cn_futures
    /\ UNCHANGED <<regVars, bsVars, reqVars, streamVars, rwVars, retryVars, txVars, snapVars, mmVars, respVars, ringVars, waitVars, rtVars, sseVars, ntVars, spVars, hubVars, psVars, hsVars, smVars, erVars>>

\* Drop for ConnectionGuard
GuardDrop ==
    /\ cn_guards > 0
    /\ cn_guards' = cn_guards - 1
    /\ cn_connections' = fetch_sub(cn_connections)
    /\ UNCHANGED cn_futures
    /\ UNCHANGED <<regVars, bsVars, reqVars, streamVars, rwVars, retryVars, txVars, snapVars, mmVars, respVars, ringVars, waitVars, rtVars, sseVars, ntVars, spVars, hubVars, psVars, hsVars, smVars, erVars>>

CnNext ==
    \/ CounterCall
    \/ FutureOk
    \/ FutureErr
    \/ FutureDropped
    \/ GuardClone
    \/ GuardDrop


\* ---------------------------------------------------------------------
\* ObservabilityHub: finish_request against snapshot
\* ---------------------------------------------------------------------
\* What the hub's counts see of a record.
HubRecord(backend) == [backend |-> backend]

NoAggregates == [b \in BackendNames |-> 0]

\* update_aggregates under the write lock: BackendAccumulator::update
\* on the entry of the record's backend, made on first use.
update_aggregates(aggregates, record) ==
    [aggregates EXCEPT ![record.backend] = @ + 1]

\* Mutant: the record is pushed to the ring before the aggregates count it.
finish_request_ring_first(stage, capacity, aggregates, ring, record) ==
    IF stage = 1
    THEN [aggregates |-> aggregates, ring |-> push(capacity, ring, record)]
    ELSE [aggregates |-> update_aggregates(aggregates, record), ring |-> ring]

\* finish_request, one lock at a time: first `self.update_aggregates`,
\* then `self.inner.ring.push`.
finish_request(stage, capacity, aggregates, ring, record) ==
    IF stage = 1
    THEN [aggregates |-> update_aggregates(aggregates, record), ring |-> ring]
    ELSE [aggregates |-> aggregates, ring |-> push(capacity, ring, record)]

\* The hub the server builds, no request finished.
HubIdle ==
    /\ hub_capacity = HubCapacity
    /\ hub_aggregates = NoAggregates
    /\ hub_ring = <<>>
    /\ hub_task = [t \in Tasks |-> None]
    /\ hub_returned = 0
    /\ hub_recent = None
    /\ hub_snapshot = None

\* ObservabilityHub::new(capacity)
HubInit ==
    /\ hub_capacity \in 0..MaxCapacity
    /\ hub_aggregates = NoAggregates
    /\ hub_ring = <<>>
    /\ hub_task = [t \in Tasks |-> None]
    /\ hub_returned = 0
    /\ hub_recent = None
    /\ hub_snapshot = None

InFinish == { t \in Tasks : hub_task[t] # None }

\* finish_request up to the release of the aggregates lock.
FinishFirst(t) ==
    /\ hub_task[t] = None
    /\ hub_returned + Cardinality(InFinish) < MaxFinishes
    /\ \E backend \in BackendNames :
        LET record == HubRecord(backend)
            r == finish_request(1, hub_capacity, hub_aggregates, hub_ring, record)
        IN  /\ hub_aggregates' = r.aggregates
            /\ hub_ring' = r.ring
            /\ hub_task' = [hub_task EXCEPT ![t] = Some(record)]
    /\ UNCHANGED <<hub_capacity, hub_returned, hub_recent, hub_snapshot>>
    /\ UNCHANGED <<regVars, bsVars, reqVars, streamVars, rwVars, retryVars, txVars, snapVars, mmVars, respVars, ringVars, waitVars, rtVars, sseVars, ntVars, spVars, cnVars, psVars, hsVars, smVars, erVars>>

\* The rest of finish_request; the call returns.
FinishSecond(t) ==
    /\ hub_task[t] # None
    /\ LET r == finish_request(2, hub_capacity, hub_aggregates, hub_ring,
                               Unwrap(hub_task[t]))
       IN  /\ hub_aggregates' = r.aggregates
           /\ hub_ring' = r.ring
    /\ hub_task' = [hub_task EXCEPT ![t] = None]
    /\ hub_returned' = hub_returned + 1
    /\ UNCHANGED <<hub_capacity, hub_recent, hub_snapshot>>
    /\ UNCHANGED <<regVars, bsVars, reqVars, streamVars, rwVars, retryVars, txVars, snapVars, mmVars, respVars, ringVars, waitVars, rtVars, sseVars, ntVars, spVars, cnVars, psVars, hsVars, smVars, erVars>>

\* snapshot: `self.inner.ring.snapshot()`
SnapshotRing ==
    /\ hub_recent = None
    /\ hub_recent' = Some(hub_ring)
    /\ UNCHANGED <<hub_capacity, hub_aggregates, hub_ring, hub_task, hub_returned, hub_snapshot>>
    /\ UNCHANGED <<regVars, bsVars, reqVars, streamVars, rwVars, retryVars, txVars, snapVars, mmVars, respVars, ringVars, waitVars, rtVars, sseVars, ntVars, spVars, cnVars, psVars, hsVars, smVars, erVars>>

\* snapshot: the aggregates are cloned under the read lock and the
\* MetricsSnapshot is built.
SnapshotAggregates ==
    /\ hub_recent # None
    /\ hub_snapshot' = Some([recent |-> Unwrap(hub_recent),
                             per_backend |-> hub_aggregates])
    /\ hub_recent' = None
    /\ UNCHANGED <<hub_capacity, hub_aggregates, hub_ring, hub_task, hub_returned>>
    /\ UNCHANGED <<regVars, bsVars, reqVars, streamVars, rwVars, retryVars, txVars, snapVars, mmVars, respVars, ringVars, waitVars, rtVars, sseVars, ntVars, spVars, cnVars, psVars, hsVars, smVars, erVars>>

HubNext ==
    \/ \E t \in Tasks : FinishFirst(t)
    \/ \E t \in Tasks : FinishSecond(t)
    \/ SnapshotRing
    \/ SnapshotAggregates


\* ---------------------------------------------------------------------
\* InputParser (crates/term_input)
\* ---------------------------------------------------------------------
\* Bytes are their values. The two markers of a bracketed paste:
START_MARKER == <<27, 91, 50, 48, 48, 126>>      \* ESC [ 2 0 0 ~
END_MARKER == <<27, 91, 50, 48, 49, 126>>        \* ESC [ 2 0 1 ~

\* InputEvent: keys carry their raw bytes and the variant of KeyKind,
\* without its payload; mouse events carry nothing.
Key(raw, kind) == [type |-> "Key", raw |-> raw, kind |-> kind]
Paste(text) == [type |-> "Paste", text |-> text]
Mouse == [type |-> "Mouse"]

\* InputParser::new; `since` is history, the bytes fed since the start
\* marker of a paste was recognized.
NewParser ==
    [state |-> "Ground", n |-> 0, buf |-> <<>>, paste_buf |-> <<>>,
     out |-> <<>>, since |-> <<>>]

emit_key(p, raw, kind) == [p EXCEPT !.out = Append(@, Key(raw, kind))]

\* String::from_utf8_lossy, to code points: a two-byte sequence decodes,
\* any other byte above 0x7f becomes U+FFFD.
RECURSIVE from_utf8_lossy_text(_)
from_utf8_lossy_text(bytes) ==
    IF bytes = <<>> THEN <<>>
    ELSE IF bytes[1] < 128 THEN <<bytes[1]>> \o from_utf8_lossy_text(Tail(bytes))
    ELSE IF /\ Len(bytes) >= 2 /\ bytes[1] \in 194..223 /\ bytes[2] \in 128..191
         THEN <<(bytes[1] - 192) * 64 + (bytes[2] - 128)>>
              \o from_utf8_lossy_text(Tail(Tail(bytes)))
    ELSE <<65533>> \o from_utf8_lossy_text(Tail(bytes))

\* std::str::from_utf8(raw).is_ok() on a lead byte and its continuations
\* (for three and four bytes, by the range of the lead byte alone).
from_utf8_ok(raw) ==
    IF Len(raw) = 2 THEN raw[1] \in 194..223 /\ raw[2] \in 128..191
    ELSE raw[1] \in 224..244

start_utf8(p, byte, remaining) ==
    [p EXCEPT !.buf = <<byte>>, !.state = "Utf8", !.n = remaining]

ground(p, byte) ==
    IF byte = 27 THEN [p EXCEPT !.buf = <<27>>, !.state = "EscReceived"]
    ELSE IF byte = 13 THEN emit_key(p, <<byte>>, "Enter")
    ELSE IF byte = 9 THEN emit_key(p, <<byte>>, "Tab")
    ELSE IF byte = 127 THEN emit_key(p, <<byte>>, "Backspace")
    ELSE IF byte \in 1..26 THEN emit_key(p, <<byte>>, "Control")
    ELSE IF byte \in 32..126 THEN emit_key(p, <<byte>>, "Char")
    ELSE IF byte \in 192..223 THEN start_utf8(p, byte, 1)
    ELSE IF byte \in 224..239 THEN start_utf8(p, byte, 2)
    ELSE IF byte \in 240..247 THEN start_utf8(p, byte, 3)
    ELSE emit_key(p, <<byte>>, "Unknown")

\* Emit the bytes of `buf` as one key and return to Ground.
take_buf_as(p, kind) ==
    [emit_key(p, p.buf, kind) EXCEPT !.buf = <<>>, !.state = "Ground", !.n = 0]

utf8_cont(p, byte) ==
    IF byte \notin 128..191
    THEN ground(take_buf_as(p, "Unknown"), byte)
    ELSE LET q == [p EXCEPT !.buf = Append(@, byte)]
         IN  IF p.n - 1 > 0 THEN [q EXCEPT !.n = p.n - 1]
             ELSE take_buf_as(q, IF from_utf8_ok(q.buf) THEN "Char" ELSE "Unknown")

esc_received(p, byte) ==
    LET q == [p EXCEPT !.buf = Append(@, byte)] IN
    IF byte = 91 THEN [q EXCEPT !.state = "CsiEntry"]
    ELSE IF byte = 79 THEN [q EXCEPT !.state = "Ss3Pending"]
    ELSE IF byte = 27 THEN [emit_key(p, <<27>>, "Escape") EXCEPT !.buf = <<27>>]
    ELSE IF byte = 127 \/ byte \in 1..26 \/ byte \in 32..126 THEN take_buf_as(q, "Alt")
    ELSE take_buf_as(q, "Unknown")

\* The numbers between ESC [ and the final byte, split at ';'.
RECURSIVE csi_numbers(_, _)
csi_numbers(bytes, acc) ==
    IF bytes = <<>> THEN <<acc>>
    ELSE IF bytes[1] = 59 THEN <<acc>> \o csi_numbers(Tail(bytes), 0)
    ELSE IF bytes[1] \in 48..57
         THEN csi_numbers(Tail(bytes),
                          IF acc * 10 + (bytes[1] - 48) > 65535 THEN 65535
                          ELSE acc * 10 + (bytes[1] - 48))
    ELSE csi_numbers(Tail(bytes), acc)

extract_csi_params(buf) ==
    LET start == IF Len(buf) >= 2 /\ SubSeq(buf, 1, 2) = <<27, 91>> THEN 2 ELSE 0
        end == IF Len(buf) = 0 THEN 0 ELSE Len(buf) - 1
    IN  IF start >= end THEN <<>>
        ELSE csi_numbers(SubSeq(buf, start + 1, end), 0)

classify_csi_final(final_byte, params) ==
    IF final_byte \in 65..68 THEN "Arrow"
    ELSE IF final_byte \in {72, 70} THEN "Nav"
    ELSE "Unknown"

classify_tilde_key(params) ==
    LET code == IF params = <<>> THEN 0 ELSE params[1] IN
    IF code \in {2, 3, 5, 6} THEN "Nav"
    ELSE IF code \in {15, 17, 18, 19, 20, 21, 23, 24} THEN "Function"
    ELSE "Unknown"

csi_entry(p, byte) ==
    LET q == [p EXCEPT !.buf = Append(@, byte)] IN
    IF byte = 77 THEN [q EXCEPT !.state = "MouseX10", !.n = 0]
    ELSE IF byte = 60 THEN [q EXCEPT !.state = "SgrMouse"]
    ELSE IF byte \in 65..68 \/ byte \in {72, 70}
         THEN take_buf_as(q, classify_csi_final(byte, <<>>))
    ELSE IF byte \in 48..57 \/ byte = 59 THEN [q EXCEPT !.state = "CsiParam"]
    ELSE take_buf_as(q, "Unknown")

csi_param(p, byte) ==
    LET q == [p EXCEPT !.buf = Append(@, byte)]
        params == extract_csi_params(q.buf)
    IN  IF byte \in 48..57 \/ byte = 59 THEN q
        ELSE IF byte = 126
             THEN IF params # <<>> /\ params[1] = 200
                  THEN [p EXCEPT !.buf = <<>>, !.paste_buf = <<>>,
                                 !.state = "PasteBuf", !.since = <<>>]
                  ELSE take_buf_as(q, classify_tilde_key(params))
        ELSE IF byte \in 64..126 THEN take_buf_as(q, classify_csi_final(byte, params))
        ELSE take_buf_as(q, "Unknown")

ss3_pending(p, byte) ==
    take_buf_as([p EXCEPT !.buf = Append(@, byte)],
                IF byte \in 65..68 THEN "Arrow"
                ELSE IF byte \in {72, 70} THEN "Nav"
                ELSE IF byte \in 80..83 THEN "Function"
                ELSE "Unknown")

mouse_x10(p, byte) ==
    IF p.n + 1 < 3
    THEN [p EXCEPT !.buf = Append(@, byte), !.n = p.n + 1]
    ELSE [p EXCEPT !.buf = <<>>, !.out = Append(@, Mouse),
                   !.state = "Ground", !.n = 0]

\* parse_sgr_mouse is Some when three numbers follow the '<'.
parse_sgr_mouse_is_some(buf) ==
    Cardinality({ i \in 1..Len(buf) : buf[i] = 59 }) >= 2

sgr_mouse(p, byte) ==
    LET q == [p EXCEPT !.buf = Append(@, byte)] IN
    IF byte \in {77, 109}
    THEN IF parse_sgr_mouse_is_some(q.buf)
         THEN [q EXCEPT !.buf = <<>>, !.out = Append(@, Mouse), !.state = "Ground"]
         ELSE take_buf_as(q, "Unknown")
    ELSE IF byte \in 48..57 \/ byte = 59 THEN q
    ELSE take_buf_as(q, "Unknown")

\* paste_buf: the bytes of a paste are collected in `buf`.
paste_buf(p, byte) ==
    LET q == [p EXCEPT !.buf = Append(@, byte), !.since = Append(@, byte)]
        len == Len(q.buf)
        m == Len(END_MARKER)
    IN  IF len >= m /\ SubSeq(q.buf, len - m + 1, len) = END_MARKER
        THEN [q EXCEPT !.out = Append(@, Paste(from_utf8_lossy_text(SubSeq(q.buf, 1, len - m)))),
                       !.buf = <<>>, !.paste_buf = <<>>, !.state = "Ground"]
        ELSE q

step(p, byte) ==
    CASE p.state = "Ground" -> ground(p, byte)
      [] p.state = "EscReceived" -> esc_received(p, byte)
      [] p.state = "CsiEntry" -> csi_entry(p, byte)
      [] p.state = "CsiParam" -> csi_param(p, byte)
      [] p.state = "Ss3Pending" -> ss3_pending(p, byte)
      [] p.state = "MouseX10" -> mouse_x10(p, byte)
      [] p.state = "SgrMouse" -> sgr_mouse(p, byte)
      [] p.state = "PasteBuf" -> paste_buf(p, byte)
      [] p.state = "Utf8" -> utf8_cont(p, byte)

\* feed, before `out` is drained.
RECURSIVE feed(_, _)
feed(p, data) ==
    IF data = <<>> THEN p ELSE feed(step(p, data[1]), Tail(data))

\* flush, before `out` is drained.
flush(p) ==
    CASE p.state = "EscReceived" ->
            [emit_key(p, <<27>>, "Escape") EXCEPT !.state = "Ground", !.buf = <<>>]
      [] p.state \in {"CsiEntry", "CsiParam", "Ss3Pending", "SgrMouse", "MouseX10", "Utf8"} ->
            take_buf_as(p, "Unknown")
      [] p.state = "PasteBuf" ->
            [p EXCEPT !.out = Append(@, Paste(p.paste_buf)),
                      !.paste_buf = <<>>, !.buf = <<>>, !.state = "Ground"]
      [] p.state = "Ground" -> p

has_pending(p) == p.state # "Ground"

\* What one read of the terminal delivers.
Data ==
    { START_MARKER, END_MARKER, <<27>>, <<91>>, <<50>>, <<126>>, <<97>>,
      <<79>>, <<77>>, <<60>>, <<195>>, <<169>> }

PsIdle ==
    /\ ps_parser = NewParser
    /\ ps_returned = <<>>
    /\ ps_op = "new"
    /\ ps_unfinished = None
    /\ ps_calls = 0

\* InputParser::feed
Feed ==
    /\ ps_calls < MaxCalls
    /\ \E data \in Data :
        LET p == feed(ps_parser, data)
        IN  /\ ps_parser' = [p EXCEPT !.out = <<>>]
            /\ ps_returned' = p.out
    /\ ps_op' = "feed"
    /\ ps_unfinished' = None
    /\ ps_calls' = ps_calls + 1
    /\ UNCHANGED <<regVars, bsVars, reqVars, streamVars, rwVars, retryVars, txVars, snapVars, mmVars, respVars, ringVars, waitVars, rtVars, sseVars, ntVars, spVars, cnVars, hubVars, hsVars, smVars, erVars>>

\* InputParser::flush
Flush ==
    /\ ps_calls < MaxCalls
    /\ LET p == flush(ps_parser)
       IN  /\ ps_parser' = [p EXCEPT !.out = <<>>]
           /\ ps_returned' = p.out
    /\ ps_op' = "flush"
    /\ ps_unfinished' = IF ps_parser.state = "PasteBuf"
                        THEN Some(ps_parser.since) ELSE None
    /\ ps_calls' = ps_calls + 1
    /\ UNCHANGED <<regVars, bsVars, reqVars, streamVars, rwVars, retryVars, txVars, snapVars, mmVars, respVars, ringVars, waitVars, rtVars, sseVars, ntVars, spVars, cnVars, hubVars, hsVars, smVars, erVars>>

PsNext ==
    \/ Feed
    \/ Flush


\* ---------------------------------------------------------------------
\* HistoryReducer
\* ---------------------------------------------------------------------
\* usize::saturating_sub
saturating_sub(a, b) == IF a > b THEN a - b ELSE 0

\* HistoryDialogState
Hidden == [visible |-> FALSE]
Visible(entries, scroll_offset) ==
    [visible |-> TRUE, entries |-> entries, scroll_offset |-> scroll_offset]

\* HistoryIntent
Load(entries) == [kind |-> "Load", entries |-> entries]
Close == [kind |-> "Close"]
ScrollUp == [kind |-> "ScrollUp"]
ScrollDown == [kind |-> "ScrollDown"]

\* make_entries(count): entry i switches to backend-i.
make_entries(count) == [i \in 1..count |-> i]

HistoryIntents ==
    { Load(make_entries(n)) : n \in 0..MaxEntries } \cup {Close, ScrollUp, ScrollDown}

\* Mutant: ScrollDown is not held at the last page.
history_reduce_unclamped(state, intent) ==
    CASE intent.kind = "Load" ->
            Visible(intent.entries, saturating_sub(Len(intent.entries), MAX_VISIBLE_ROWS))
      [] intent.kind = "Close" -> Hidden
      [] intent.kind = "ScrollUp" ->
            IF state.visible
            THEN Visible(state.entries, saturating_sub(state.scroll_offset, 1))
            ELSE state
      [] intent.kind = "ScrollDown" ->
            IF state.visible
            THEN Visible(state.entries, state.scroll_offset + 1)
            ELSE state

\* HistoryReducer::reduce
history_reduce(state, intent) ==
    CASE intent.kind = "Load" ->
            Visible(intent.entries, saturating_sub(Len(intent.entries), MAX_VISIBLE_ROWS))
      [] intent.kind = "Close" -> Hidden
      [] intent.kind = "ScrollUp" ->
            IF state.visible
            THEN Visible(state.entries, saturating_sub(state.scroll_offset, 1))
            ELSE state
      [] intent.kind = "ScrollDown" ->
            IF state.visible
            THEN LET max_offset == saturating_sub(Len(state.entries), MAX_VISIBLE_ROWS)
                 IN  Visible(state.entries,
                             IF state.scroll_offset + 1 <= max_offset
                             THEN state.scroll_offset + 1 ELSE max_offset)
            ELSE state

\* HistoryDialogState::default, no intent yet.
HsIdle ==
    /\ hs_state = Hidden
    /\ hs_prev = Hidden
    /\ hs_intent = None

\* The dialog dispatches one intent.
HistoryDispatch ==
    /\ \E intent \in HistoryIntents :
        /\ hs_state' = history_reduce(hs_state, intent)
        /\ hs_intent' = Some(intent)
    /\ hs_prev' = hs_state
    /\ UNCHANGED <<regVars, bsVars, reqVars, streamVars, rwVars, retryVars, txVars, snapVars, mmVars, respVars, ringVars, waitVars, rtVars, sseVars, ntVars, spVars, cnVars, hubVars, psVars, smVars, erVars>>

HsNext == HistoryDispatch


\* ---------------------------------------------------------------------
\* SummarizeReducer
\* ---------------------------------------------------------------------
\* SummarizeDialogState
SummarizeHidden == [kind |-> "Hidden"]
Summarizing(animation_tick) ==
    [kind |-> "Summarizing", animation_tick |-> animation_tick]
Retrying(n, error, animation_tick) ==
    [kind |-> "Retrying", attempt |-> n, error |-> error,
     animation_tick |-> animation_tick]
Failed(error, selected_button) ==
    [kind |-> "Failed", error |-> error, selected_button |-> selected_button]

\* SummarizeIntent; only Error carries a message.
SummarizeIntent(kind, message) == [kind |-> kind, message |-> message]

SummarizeIntents ==
    { SummarizeIntent(k, "") :
        k \in {"Start", "AnimationTick", "Success", "ToggleButton", "Hide"} }
        \cup { SummarizeIntent("Error", m) : m \in {"timeout", "final error"} }

\* The attempt an Error intent stands for in a state.
current_attempt(state) ==
    IF state.kind = "Retrying" THEN state.attempt + 1 ELSE 1

\* Mutant: Failed is reached only past MAX_AUTO_RETRIES.
summarize_reduce_one_more(state, intent) ==
    CASE intent.kind = "Start" -> Summarizing(0)
      [] intent.kind = "AnimationTick" ->
            IF state.kind \in {"Summarizing", "Retrying"}
            THEN [state EXCEPT !.animation_tick = @ + 1]
            ELSE state
      [] intent.kind \in {"Success", "Hide"} -> SummarizeHidden
      [] intent.kind = "Error" ->
            IF current_attempt(state) > MAX_AUTO_RETRIES
            THEN Failed(intent.message, 0)
            ELSE Retrying(current_attempt(state), intent.message, 0)
      [] intent.kind = "ToggleButton" ->
            IF state.kind = "Failed"
            THEN [state EXCEPT !.selected_button = IF @ = 0 THEN 1 ELSE 0]
            ELSE state

\* SummarizeReducer::reduce
summarize_reduce(state, intent) ==
    CASE intent.kind = "Start" -> Summarizing(0)
      [] intent.kind = "AnimationTick" ->
            IF state.kind \in {"Summarizing", "Retrying"}
            THEN [state EXCEPT !.animation_tick = @ + 1]
            ELSE state
      [] intent.kind \in {"Success", "Hide"} -> SummarizeHidden
      [] intent.kind = "Error" ->
            IF current_attempt(state) >= MAX_AUTO_RETRIES
            THEN Failed(intent.message, 0)
            ELSE Retrying(current_attempt(state), intent.message, 0)
      [] intent.kind = "ToggleButton" ->
            IF state.kind = "Failed"
            THEN [state EXCEPT !.selected_button = IF @ = 0 THEN 1 ELSE 0]
            ELSE state

\* The dialog before its first intent.
SmIdle ==
    /\ sm_state = SummarizeHidden
    /\ sm_intent = None
    /\ sm_errors = None

\* Error intents in a row since the last Start; animation ticks and button
\* toggles do not end the row, Success and Hide do.
errors_after(errors, intent) ==
    CASE intent.kind = "Start" -> Some(0)
      [] intent.kind = "Error" -> IF errors = None THEN None ELSE Some(Unwrap(errors) + 1)
      [] intent.kind \in {"Success", "Hide"} -> None
      [] OTHER -> errors

\* The dialog dispatches one intent.
SummarizeDispatch ==
    /\ \E intent \in SummarizeIntents :
        /\ intent.kind = "AnimationTick" =>
            ~(sm_state.kind \in {"Summarizing", "Retrying"}
              /\ sm_state.animation_tick >= MaxTicks)
        /\ (intent.kind = "Error" /\ sm_errors # None) => Unwrap(sm_errors) < MaxErrors
        /\ sm_state' = summarize_reduce(sm_state, intent)
        /\ sm_intent' = Some(intent)
        /\ sm_errors' = errors_after(sm_errors, intent)
    /\ UNCHANGED <<regVars, bsVars, reqVars, streamVars, rwVars, retryVars, txVars, snapVars, mmVars, respVars, ringVars, waitVars, rtVars, sseVars, ntVars, spVars, cnVars, hubVars, psVars, hsVars, erVars>>

SmNext == SummarizeDispatch


\* ---------------------------------------------------------------------
\* ErrorRegistry
\* ---------------------------------------------------------------------
\* ErrorSeverity in its derived order: Info < Warning < Error < Critical.
SeverityRank(severity) ==
    CASE severity = "Info" -> 0
      [] severity = "Warning" -> 1
      [] severity = "Error" -> 2
      [] severity = "Critical" -> 3

\* AppError, without its timestamp.
AppError(id, severity, category, message, details, recovery_hint) ==
    [id |-> id, severity |-> severity, category |-> category,
     message |-> message, details |-> details,
     recovery_hint |-> recovery_hint, acknowledged |-> FALSE]

\* ErrorRegistry::new(capacity)
NewErrorRegistry(capacity) ==
    [next_id |-> 1, errors |-> <<>>, capacity |-> capacity, healthy |-> TRUE,
     unhealthy_reason |-> None, degraded_features |-> {}]

\* The ring buffer push the recording methods share.
ring_push(reg, error) ==
    [reg EXCEPT !.errors =
        Append(IF Len(reg.errors) = reg.capacity
               THEN pop_front(reg.errors) ELSE reg.errors, error)]

\* record_with_hint; record_with_details is the same with no hint, and
\* record the same with no details.
record_with_hint(reg, severity, category, message, details, recovery_hint) ==
    LET error == AppError(reg.next_id, severity, category, message,
                          details, recovery_hint)
        counted == [reg EXCEPT !.next_id = @ + 1]
        judged == IF SeverityRank(severity) >= SeverityRank("Error")
                  THEN [counted EXCEPT !.healthy = FALSE,
                                       !.unhealthy_reason = Some(message)]
                  ELSE counted
    IN  ring_push(judged, error)

record_with_details(reg, severity, category, message, details) ==
    record_with_hint(reg, severity, category, message, details, None)

record(reg, severity, category, message) ==
    record_with_details(reg, severity, category, message, None)

degrade_feature(reg, feature, reason) ==
    LET error == AppError(reg.next_id, "Warning", "System", reason, None, None)
    IN  ring_push([reg EXCEPT !.degraded_features = @ \cup {feature},
                                !.next_id = @ + 1], error)

\* A registry nothing is recorded in.
ErIdle ==
    /\ er_inner = NewErrorRegistry(MaxCapacity)
    /\ er_recorded = <<>>

ErInit ==
    /\ \E capacity \in 0..MaxCapacity : er_inner = NewErrorRegistry(capacity)
    /\ er_recorded = <<>>

\* The error a call has just stored: the last of the buffer.
Recorded(reg) == Append(er_recorded, reg.errors[Len(reg.errors)])

Record ==
    /\ Len(er_recorded) < MaxRecorded
    /\ \E severity \in {"Warning", "Error"} :
        LET reg == record(er_inner, severity, "Network", "refused")
        IN  /\ er_inner' = reg
            /\ er_recorded' = Recorded(reg)
    /\ UNCHANGED <<regVars, bsVars, reqVars, streamVars, rwVars, retryVars, txVars, snapVars, mmVars, respVars, ringVars, waitVars, rtVars, sseVars, ntVars, spVars, cnVars, hubVars, psVars, hsVars, smVars>>

RecordWithDetails ==
    /\ Len(er_recorded) < MaxRecorded
    /\ \E severity \in {"Info", "Critical"} :
        LET reg == record_with_details(er_inner, severity, "Process", "exited",
                                         Some("status 1"))
        IN  /\ er_inner' = reg
            /\ er_recorded' = Recorded(reg)
    /\ UNCHANGED <<regVars, bsVars, reqVars, streamVars, rwVars, retryVars, txVars, snapVars, mmVars, respVars, ringVars, waitVars, rtVars, sseVars, ntVars, spVars, cnVars, hubVars, psVars, hsVars, smVars>>

RecordWithHint ==
    /\ Len(er_recorded) < MaxRecorded
    /\ \E severity \in {"Warning", "Error"} :
        LET reg == record_with_hint(er_inner, severity, "Config", "invalid",
                                      None, "fix the file")
        IN  /\ er_inner' = reg
            /\ er_recorded' = Recorded(reg)
    /\ UNCHANGED <<regVars, bsVars, reqVars, streamVars, rwVars, retryVars, txVars, snapVars, mmVars, respVars, ringVars, waitVars, rtVars, sseVars, ntVars, spVars, cnVars, hubVars, psVars, hsVars, smVars>>

DegradeFeature ==
    /\ Len(er_recorded) < MaxRecorded
    /\ LET reg == degrade_feature(er_inner, "Clipboard", "no clipboard")
       IN  /\ er_inner' = reg
           /\ er_recorded' = Recorded(reg)
    /\ UNCHANGED <<regVars, bsVars, reqVars, streamVars, rwVars, retryVars, txVars, snapVars, mmVars, respVars, ringVars, waitVars, rtVars, sseVars, ntVars, spVars, cnVars, hubVars, psVars, hsVars, smVars>>

ErNext ==
    \/ Record
    \/ RecordWithDetails
    \/ RecordWithHint
    \/ DegradeFeature

\* ---------------------------------------------------------------------
\* Specifications
\* ---------------------------------------------------------------------
\* The state of a BackendState that no operation of the specification uses.
BsIdle ==
    /\ active_backend = "anthropic"
    /\ config = Config(<<"anthropic">>, "")
    /\ switch_log = <<SwitchLogEntry(None, Some("anthropic"))>>
    /\ bs_result = "Ok"
    /\ bs_call = Call("from_config", "")

InitRegistry == RegInit /\ BsIdle /\ ReqInit /\ StreamInit /\ RwInit /\ RetryIdle /\ TxInit /\ SnapInit /\ MmIdle /\ RespInit /\ RingIdle /\ WaitIdle /\ RtIdle /\ SseIdle /\ NtIdle /\ SplitIdle /\ CnIdle /\ HubIdle /\ PsIdle /\ HsIdle /\ SmIdle /\ ErIdle

SpecRegistry == InitRegistry /\ [][RegNext]_vars

InitBackend == BsInit /\ RegInit /\ ReqInit /\ StreamInit /\ RwInit /\ RetryIdle /\ TxInit /\ SnapInit /\ MmIdle /\ RespInit /\ RingIdle /\ WaitIdle /\ RtIdle /\ SseIdle /\ NtIdle /\ SplitIdle /\ CnIdle /\ HubIdle /\ PsIdle /\ HsIdle /\ SmIdle /\ ErIdle

SpecBackend == InitBackend /\ [][BsNext]_vars

InitRequest == BsInit /\ RegInit /\ ReqInit /\ StreamInit /\ RwInit /\ RetryIdle /\ TxInit /\ SnapInit /\ MmIdle /\ RespInit /\ RingIdle /\ WaitIdle /\ RtIdle /\ SseIdle /\ NtIdle /\ SplitIdle /\ CnIdle /\ HubIdle /\ PsIdle /\ HsIdle /\ SmIdle /\ ErIdle

SpecRequest == InitRequest /\ [][ReqNext]_vars

InitStream == StreamInit /\ RegInit /\ BsIdle /\ ReqInit /\ RwInit /\ RetryIdle /\ TxInit /\ SnapInit /\ MmIdle /\ RespInit /\ RingIdle /\ WaitIdle /\ RtIdle /\ SseIdle /\ NtIdle /\ SplitIdle /\ CnIdle /\ HubIdle /\ PsIdle /\ HsIdle /\ SmIdle /\ ErIdle

SpecStream == InitStream /\ [][StreamNext]_vars

InitRewriter == RwInit /\ RegInit /\ BsIdle /\ ReqInit /\ StreamInit /\ RetryIdle /\ TxInit /\ SnapInit /\ MmIdle /\ RespInit /\ RingIdle /\ WaitIdle /\ RtIdle /\ SseIdle /\ NtIdle /\ SplitIdle /\ CnIdle /\ HubIdle /\ PsIdle /\ HsIdle /\ SmIdle /\ ErIdle

SpecRewriter == InitRewriter /\ [][RwNext]_vars

InitRetry == RetryInit /\ RegInit /\ BsIdle /\ ReqInit /\ StreamInit /\ RwInit /\ TxInit /\ SnapInit /\ MmIdle /\ RespInit /\ RingIdle /\ WaitIdle /\ RtIdle /\ SseIdle /\ NtIdle /\ SplitIdle /\ CnIdle /\ HubIdle /\ PsIdle /\ HsIdle /\ SmIdle /\ ErIdle

SpecRetry == InitRetry /\ [][RetryNext]_vars

InitTransaction ==
    RegInit /\ TxInit /\ BsIdle /\ ReqInit /\ StreamInit /\ RwInit /\ RetryIdle /\ SnapInit
        /\ MmIdle /\ RespInit /\ RingIdle /\ WaitIdle /\ RtIdle /\ SseIdle /\ NtIdle /\ SplitIdle /\ CnIdle /\ HubIdle /\ PsIdle /\ HsIdle /\ SmIdle /\ ErIdle

SpecTransaction == InitTransaction /\ [][TxNext]_vars

InitSnapshot ==
    BsInit /\ SnapInit /\ RegInit /\ ReqInit /\ StreamInit /\ RwInit /\ RetryIdle
        /\ TxInit /\ MmIdle /\ RespInit /\ RingIdle /\ WaitIdle /\ RtIdle /\ SseIdle /\ NtIdle /\ SplitIdle /\ CnIdle /\ HubIdle /\ PsIdle /\ HsIdle /\ SmIdle /\ ErIdle

SpecSnapshot == InitSnapshot /\ [][SnapNext]_vars

InitModelMap ==
    MmInit /\ RegInit /\ BsIdle /\ ReqInit /\ StreamInit /\ RwInit /\ RetryIdle
        /\ TxInit /\ SnapInit /\ RespInit /\ RingIdle /\ WaitIdle /\ RtIdle /\ SseIdle /\ NtIdle /\ SplitIdle /\ CnIdle /\ HubIdle /\ PsIdle /\ HsIdle /\ SmIdle /\ ErIdle

SpecModelMap == InitModelMap /\ [][MmNext]_vars

InitResponse ==
    RespInit /\ RegInit /\ BsIdle /\ ReqInit /\ StreamInit /\ RwInit /\ RetryIdle
        /\ TxInit /\ SnapInit /\ MmIdle /\ RingIdle /\ WaitIdle /\ RtIdle /\ SseIdle /\ NtIdle /\ SplitIdle /\ CnIdle /\ HubIdle /\ PsIdle /\ HsIdle /\ SmIdle /\ ErIdle

SpecResponse == InitResponse /\ [][RespNext]_vars

InitRing ==
    RingInit /\ RegInit /\ BsIdle /\ ReqInit /\ StreamInit /\ RwInit /\ RetryIdle
        /\ TxInit /\ SnapInit /\ MmIdle /\ RespInit /\ WaitIdle /\ RtIdle /\ SseIdle /\ NtIdle /\ SplitIdle /\ CnIdle /\ HubIdle /\ PsIdle /\ HsIdle /\ SmIdle /\ ErIdle

SpecRing == InitRing /\ [][RingNext]_vars

InitShutdown ==
    WaitInit /\ RegInit /\ BsIdle /\ ReqInit /\ StreamInit /\ RwInit /\ RetryIdle
        /\ TxInit /\ SnapInit /\ MmIdle /\ RespInit /\ RingIdle /\ RtIdle /\ SseIdle /\ NtIdle /\ SplitIdle /\ CnIdle /\ HubIdle /\ PsIdle /\ HsIdle /\ SmIdle /\ ErIdle

InitRouter ==
    RtInit /\ RegInit /\ BsIdle /\ ReqInit /\ StreamInit /\ RwInit /\ RetryIdle
        /\ TxInit /\ SnapInit /\ MmIdle /\ RespInit /\ RingIdle /\ WaitIdle /\ SseIdle /\ NtIdle /\ SplitIdle /\ CnIdle /\ HubIdle /\ PsIdle /\ HsIdle /\ SmIdle /\ ErIdle

SpecRouter == InitRouter /\ [][RtNext]_vars

\* The runtime runs the task of the wait and its timer fires.
SpecShutdown == InitShutdown /\ [][WaitNext]_vars /\ WF_vars(WaitStep)

InitSse ==
    SseIdle /\ RegInit /\ BsIdle /\ ReqInit /\ StreamInit /\ RwInit /\ RetryIdle
        /\ TxInit /\ SnapInit /\ MmIdle /\ RespInit /\ RingIdle /\ WaitIdle /\ RtIdle /\ NtIdle /\ SplitIdle /\ CnIdle /\ HubIdle /\ PsIdle /\ HsIdle /\ SmIdle /\ ErIdle

SpecSse == InitSse /\ [][SseNext]_vars

InitNotify ==
    NtIdle /\ RegInit /\ BsIdle /\ ReqInit /\ StreamInit /\ RwInit /\ RetryIdle
        /\ TxInit /\ SnapInit /\ MmIdle /\ RespInit /\ RingIdle /\ WaitIdle /\ RtIdle /\ SseIdle /\ SplitIdle /\ CnIdle /\ HubIdle /\ PsIdle /\ HsIdle /\ SmIdle /\ ErIdle

SpecNotify == InitNotify /\ [][NtNext]_vars

InitSplit ==
    SplitInit /\ RegInit /\ BsIdle /\ ReqInit /\ StreamInit /\ RwInit /\ RetryIdle
        /\ TxInit /\ SnapInit /\ MmIdle /\ RespInit /\ RingIdle /\ WaitIdle /\ RtIdle /\ SseIdle /\ NtIdle /\ CnIdle /\ HubIdle /\ PsIdle /\ HsIdle /\ SmIdle /\ ErIdle

SpecSplit == InitSplit /\ [][SplitNext]_vars

InitConnections ==
    CnIdle /\ RegInit /\ BsIdle /\ ReqInit /\ StreamInit /\ RwInit /\ RetryIdle
        /\ TxInit /\ SnapInit /\ MmIdle /\ RespInit /\ RingIdle /\ WaitIdle /\ RtIdle /\ SseIdle /\ NtIdle /\ SplitIdle /\ HubIdle /\ PsIdle /\ HsIdle /\ SmIdle /\ ErIdle

SpecConnections == InitConnections /\ [][CnNext]_vars

InitHub ==
    HubInit /\ RegInit /\ BsIdle /\ ReqInit /\ StreamInit /\ RwInit /\ RetryIdle
        /\ TxInit /\ SnapInit /\ MmIdle /\ RespInit /\ RingIdle /\ WaitIdle /\ RtIdle /\ SseIdle /\ NtIdle /\ SplitIdle /\ CnIdle /\ PsIdle /\ HsIdle /\ SmIdle /\ ErIdle

SpecHub == InitHub /\ [][HubNext]_vars

InitParser ==
    PsIdle /\ RegInit /\ BsIdle /\ ReqInit /\ StreamInit /\ RwInit /\ RetryIdle
        /\ TxInit /\ SnapInit /\ MmIdle /\ RespInit /\ RingIdle /\ WaitIdle /\ RtIdle /\ SseIdle /\ NtIdle /\ SplitIdle /\ CnIdle /\ HubIdle /\ HsIdle /\ SmIdle /\ ErIdle

SpecParser == InitParser /\ [][PsNext]_vars

InitHistory ==
    HsIdle /\ RegInit /\ BsIdle /\ ReqInit /\ StreamInit /\ RwInit /\ RetryIdle
        /\ TxInit /\ SnapInit /\ MmIdle /\ RespInit /\ RingIdle /\ WaitIdle /\ RtIdle /\ SseIdle /\ NtIdle /\ SplitIdle /\ CnIdle /\ HubIdle /\ PsIdle /\ SmIdle /\ ErIdle

SpecHistory == InitHistory /\ [][HsNext]_vars

InitSummarize ==
    SmIdle /\ RegInit /\ BsIdle /\ ReqInit /\ StreamInit /\ RwInit /\ RetryIdle
        /\ TxInit /\ SnapInit /\ MmIdle /\ RespInit /\ RingIdle /\ WaitIdle /\ RtIdle /\ SseIdle /\ NtIdle /\ SplitIdle /\ CnIdle /\ HubIdle /\ PsIdle /\ HsIdle /\ ErIdle

SpecSummarize == InitSummarize /\ [][SmNext]_vars

InitErrors ==
    ErInit /\ RegInit /\ BsIdle /\ ReqInit /\ StreamInit /\ RwInit /\ RetryIdle
        /\ TxInit /\ SnapInit /\ MmIdle /\ RespInit /\ RingIdle /\ WaitIdle /\ RtIdle /\ SseIdle /\ NtIdle /\ SplitIdle /\ CnIdle /\ HubIdle /\ PsIdle /\ HsIdle /\ SmIdle

SpecErrors == InitErrors /\ [][ErNext]_vars

\* ---------------------------------------------------------------------
\* Properties of the thinking registry
\* ---------------------------------------------------------------------
IsThinkingItem(item) == item.type \in {"thinking", "redacted_thinking"}

\* The thinking / redacted_thinking items present in messages[].content[] of b.
ThinkingItems(b) ==
    IF ~b.has_messages THEN {}
    ELSE UNION { IF ~b.messages[i].content.is_array THEN {}
                 ELSE { it \in Range(b.messages[i].content.items) : IsThinkingItem(it) }
                 : i \in DOMAIN b.messages }

\* C1: when filter_request returns, every thinking / redacted_thinking item
\* still in the body has its fingerprint in the registry, in an entry whose
\* session is current_session.
C1_FilteredBodyInRegistry ==
    op = "filter_request" =>
        \A item \in ThinkingItems(body) :
            /\ item.payload # None
            /\ fast_hash(Unwrap(item.payload)) \in DOMAIN blocks
            /\ blocks[fast_hash(Unwrap(item.payload))].session = current_session

\* A request after a backend switch that keeps one thinking block and
\* strips another.
C1_Witness ==
    /\ op = "filter_request"
    /\ current_session = 2
    /\ ThinkingItems(body) # {}
    /\ ThinkingItems(body) # ThinkingItems(req)

\* C2: a filter_request whose body has no assistant message, or names no
\* thinking fingerprint, removes no current-session entry: every entry it
\* removes belongs to another session.
C2_HistorylessKeepsCurrentSession ==
    [][(op' = "filter_request"
          /\ (~has_history(req') \/ extract_request_hashes(req') = {}))
        => \A h \in DOMAIN blocks :
              blocks[h].session = current_session => h \in DOMAIN blocks']_vars

\* A request with assistant history and no thinking block has run and a
\* confirmed entry, older than the orphan threshold, is still registered.
C2_Witness ==
    /\ op = "filter_request"
    /\ has_history(req)
    /\ extract_request_hashes(req) = {}
    /\ \E h \in DOMAIN blocks :
          /\ blocks[h].confirmed
          /\ blocks[h].session = current_session
          /\ now - blocks[h].registered_at > DEFAULT_ORPHAN_THRESHOLD

\* C12: when filter_request returns, every entry of the registry belongs to
\* current_session, whatever the request body was.
C12_NoOldSessionAfterFilter ==
    op = "filter_request" =>
        \A h \in DOMAIN blocks : blocks[h].session = current_session

\* After a switch, a request with assistant history that still carries a
\* block of the old session: both old entries are removed, the block is
\* stripped from the body and the registry is empty.
C12_Witness ==
    /\ op = "filter_request"
    /\ has_history(req)
    /\ ThinkingItems(req) # {}
    /\ ThinkingItems(body) = {}
    /\ stats.old_session = 2
    /\ blocks = << >>

\* The step is a filter_request whose body has an assistant message and a
\* non-empty fingerprint set.
InformedFilterStep ==
    /\ op' = "filter_request"
    /\ has_history(req')
    /\ extract_request_hashes(req') # {}

\* C13: such a filter_request removes every confirmed current-session entry
\* whose fingerprint is not in the set and keeps every one whose fingerprint
\* is in it.
C13_ConfirmedFollowRequest ==
    [][InformedFilterStep =>
        \A h \in DOMAIN blocks :
            (blocks[h].session = current_session /\ blocks[h].confirmed) =>
                (h \in DOMAIN blocks' <=> h \in extract_request_hashes(req'))]_vars

\* One confirmed entry was evicted as unused; another, confirmed by an
\* earlier request and named again by this one, is kept.
C13_Witness ==
    /\ op = "filter_request"
    /\ has_history(req)
    /\ extract_request_hashes(req) # {}
    /\ stats.confirmed_unused = 1
    /\ stats.confirmed = 0
    /\ \E h \in DOMAIN blocks :
          blocks[h].confirmed /\ h \in extract_request_hashes(req)

\* C14: every filter_request whose body carries assistant history and lacks
\* the fingerprint of a confirmed current-session block evicts that block.
C14_HistoryEvictsConfirmed ==
    [][(op' = "filter_request" /\ has_history(req')) =>
        \A h \in DOMAIN blocks :
            (/\ blocks[h].session = current_session
             /\ blocks[h].confirmed
             /\ h \notin extract_request_hashes(req')) => h \notin DOMAIN blocks']_vars

\* C14, amended: every filter_request whose body carries assistant history
\* and names at least one thinking fingerprint, but not the fingerprint of
\* a confirmed current-session block, evicts that block.
C14_InformedHistoryEvictsConfirmed ==
    [][InformedFilterStep =>
        \A h \in DOMAIN blocks :
            (/\ blocks[h].session = current_session
             /\ blocks[h].confirmed
             /\ h \notin extract_request_hashes(req')) => h \notin DOMAIN blocks']_vars

\* Context truncation: the request names only a block it confirms for the
\* first time, and the block confirmed earlier is evicted.
C14_Witness ==
    /\ op = "filter_request"
    /\ has_history(req)
    /\ stats.confirmed = 1
    /\ stats.confirmed_unused = 1
    /\ stats.old_session = 0
    /\ DOMAIN blocks = extract_request_hashes(req)

\* C15: filter_request removes an unconfirmed current-session entry only if
\* the body has an assistant message and a non-empty fingerprint set without
\* the entry's fingerprint and the entry is older than the orphan threshold;
\* otherwise the entry is kept.
C15_OrphanOnlyPastThreshold ==
    [][op' = "filter_request" =>
        \A h \in DOMAIN blocks :
            (/\ blocks[h].session = current_session
             /\ ~blocks[h].confirmed
             /\ h \notin DOMAIN blocks') =>
                /\ has_history(req')
                /\ extract_request_hashes(req') # {}
                /\ h \notin extract_request_hashes(req')
                /\ now - blocks[h].registered_at > DEFAULT_ORPHAN_THRESHOLD]_vars

\* A request with history that names another block, which it confirms: the
\* unconfirmed entry it does not name is past the threshold and is removed
\* as an orphan, and nothing else is removed.
C15_Witness ==
    /\ op = "filter_request"
    /\ has_history(req)
    /\ stats.orphaned = 1
    /\ stats.confirmed = 1
    /\ stats.confirmed_unused = 0
    /\ stats.old_session = 0

\* The entries filter_request is to confirm: unconfirmed, of the current
\* session, with their fingerprint in the request body.
ToConfirm(h) ==
    /\ ~blocks[h].confirmed
    /\ blocks[h].session = current_session
    /\ h \in extract_request_hashes(req')

\* filter_request confirms the entries it is to confirm and changes the
\* flag of no other entry.
ConfirmsExactly ==
    op' = "filter_request" =>
        \A h \in DOMAIN blocks :
            /\ ToConfirm(h) => (h \in DOMAIN blocks' /\ blocks'[h].confirmed)
            /\ (~ToConfirm(h) /\ h \in DOMAIN blocks') =>
                    blocks'[h].confirmed = blocks[h].confirmed

\* No operation turns a confirmed current-session entry back to unconfirmed.
ConfirmedStays ==
    \A h \in (DOMAIN blocks) \cap (DOMAIN blocks') :
        (blocks[h].confirmed /\ blocks[h].session = current_session) =>
            blocks'[h].confirmed

\* C16: filter_request sets confirmed exactly on the unconfirmed
\* current-session entries whose fingerprint is in the body, never on an
\* entry of another session, and no registry operation turns a confirmed
\* current-session entry back to unconfirmed.
C16_ConfirmExactAndStable ==
    [][ConfirmsExactly /\ ConfirmedStays]_vars

\* C11: current_session equals the number of on_backend_switch calls whose
\* argument differed from the backend recorded before the call; it never
\* decreases, and a call with the recorded backend changes nothing.
C11_SessionCountsTransitions ==
    /\ [](current_session = transitions)
    /\ [][/\ current_session' >= current_session
          /\ (op' = "on_backend_switch" /\ transitions' = transitions) =>
                UNCHANGED <<current_session, current_backend, blocks>>]_vars

\* Two switches to a different backend, the second back to "anthropic".
C11_Witness ==
    /\ op = "on_backend_switch"
    /\ current_backend = "anthropic"
    /\ current_session = 2
    /\ transitions = 2

\* An entry of a session older than current_session.
StaleEntry(h) == h \in DOMAIN blocks /\ blocks[h].session < current_session

\* A response is harvested under a session id older than current_session.
LateHarvestStep ==
    /\ op' \in {"register_from_response", "register_from_sse_stream"}
    /\ harvest_session' # None
    /\ Unwrap(harvest_session') < current_session

\* Every entry a late harvest writes carries the captured session and is
\* unconfirmed.
StoredUnderCapturedSession ==
    LateHarvestStep =>
        \A h \in DOMAIN blocks' :
            (h \notin DOMAIN blocks \/ blocks'[h] # blocks[h]) =>
                /\ blocks'[h].session = Unwrap(harvest_session')
                /\ ~blocks'[h].confirmed

\* No step confirms an entry of an older session.
StaleNeverConfirmed ==
    \A h \in DOMAIN blocks :
        (StaleEntry(h) /\ h \in DOMAIN blocks' /\ blocks'[h].confirmed) =>
            blocks'[h] = blocks[h]

\* filter_request removes every entry of an older session and keeps no
\* body item that has the fingerprint of one.
StaleGoneAfterFilter ==
    op' = "filter_request" =>
        \A h \in DOMAIN blocks :
            StaleEntry(h) =>
                /\ h \notin DOMAIN blocks'
                /\ \A item \in ThinkingItems(body') :
                       item.payload # None => fast_hash(Unwrap(item.payload)) # h

\* C18: a block harvested with a session id captured at request start and
\* older than current_session at harvest time is stored under the captured
\* session, is never confirmed, is not kept in a body by filter_request and
\* is removed from the registry by the next filter_request.
C18_LateHarvestIsStale ==
    [][StoredUnderCapturedSession /\ StaleNeverConfirmed /\ StaleGoneAfterFilter]_vars

\* A response was harvested under session 0 after the switch to session 1
\* and the registry holds its block, unconfirmed, under session 0.
C18_Witness ==
    /\ op = "register_from_response"
    /\ harvest_session = Some(0)
    /\ current_session = 1
    /\ now > 0
    /\ \E h \in DOMAIN blocks : blocks[h] = BlockInfo(0, FALSE, now)

\* C19: whatever switch_backend and update_config calls run around it, the
\* pair get_config_and_active_backend returns is a (config, active id)
\* pair that BackendState held at one instant of the call, never a config
\* of one state with the active id of another.
C19_SnapshotIsOneInstant ==
    read_pc = "returned" => <<snap_config, snap_active>> \in held

\* A pair was returned and an update_config has since replaced both the
\* config and the active backend.
C19_Witness ==
    /\ read_pc = "returned"
    /\ <<snap_config, snap_active>> \in held
    /\ snap_config # config
    /\ snap_active # active_backend
    /\ Len(switch_log) = 2

\* The step is a call switch_backend(id).
SwitchCall(id) == bs_call' = Call("switch_backend", id)

\* C20: switch_backend(id) changes BackendState only when id names a
\* backend of the current config and differs from the active id; then the
\* active id becomes id and exactly one entry (old active -> id) is
\* appended to the switch log. With an unknown id it returns
\* BackendNotFound, with id equal to the active id it returns Ok, and in
\* both cases the active id, the config and the switch log are unchanged.
C20_SwitchValidatesAndLogs ==
    [][\A id \in BackendIds :
        SwitchCall(id) =>
            IF id \notin Range(config.backends)
            THEN /\ bs_result' = "BackendNotFound"
                 /\ UNCHANGED <<active_backend, config, switch_log>>
            ELSE IF id = active_backend
                 THEN /\ bs_result' = "Ok"
                      /\ UNCHANGED <<active_backend, config, switch_log>>
                 ELSE /\ bs_result' = "Ok"
                      /\ active_backend' = id
                      /\ config' = config
                      /\ switch_log' = Append(switch_log,
                                              SwitchLogEntry(Some(active_backend),
                                                             Some(id)))]_vars

\* switch_backend("glm") has moved the active backend from anthropic to
\* glm and logged it.
C20_Witness ==
    /\ bs_call = Call("switch_backend", "glm")
    /\ bs_result = "Ok"
    /\ active_backend = "glm"
    /\ Len(switch_log) = 2
    /\ switch_log[2] = SwitchLogEntry(Some("anthropic"), Some("glm"))

\* While a filter_request is between two of its phases, the session and
\* the block map are as its last completed phase left them.
Undisturbed ==
    holder # None => current_session = fr_session /\ blocks = fr_left

\* The step on which the phased filter_request returns.
Returns == holder # None /\ holder' = None

\* What the phases leave at return is what one uninterrupted call computes
\* from the state at its start.
ReturnsAsOneCall ==
    Returns =>
        /\ blocks' = filter_request_blocks(fr_start, fr_session, fr_body, fr_now,
                                           DEFAULT_ORPHAN_THRESHOLD)
        /\ body' = filter_request_body(blocks', fr_body)
        /\ stats' = filter_request_stats(fr_start, fr_session, fr_body, fr_now,
                                         DEFAULT_ORPHAN_THRESHOLD)

\* C17: filter_request is a transaction. No on_backend_switch, no
\* register_from_response or register_from_sse_stream and no other
\* filter_request takes effect between its extract, confirm, cleanup and
\* filter phases: between phases the session and the block map are
\* untouched, and the call returns what a single uninterrupted call returns.
C17_FilterIsTransaction == []Undisturbed /\ [][ReturnsAsOneCall]_vars

\* A call is past its cleanup phase, which changed the block map, while
\* another task is blocked on the registry after a backend switch.
C17_Witness ==
    /\ holder = Some("t1")
    /\ phase = "cleanup"
    /\ waiting = {"t2"}
    /\ current_session > 0
    /\ has_history(fr_body)
    /\ fr_start # blocks
    /\ blocks # << >>

\* ---------------------------------------------------------------------
\* Properties of the backend state
\* ---------------------------------------------------------------------
\* C3: the active backend id names a backend of the current config, so
\* get_active_backend_config never fails.
C3_ActiveInConfig ==
    /\ active_backend \in Range(config.backends)
    /\ get_active_backend_config = "Ok"

\* ---------------------------------------------------------------------
\* Properties of a request
\* ---------------------------------------------------------------------
\* The backend a request chose at entry: the plugin or teammate override,
\* else the active backend proxy_handler read.
ChosenAtEntry(r) ==
    IF backend_override[r] # None THEN backend_override[r] ELSE entry_active[r]

\* C4: the backend of a completed request's record is the active backend
\* read at entry or one of the two overrides, and a switch_backend while
\* the request is in flight changes neither the recorded backend nor the
\* backend the request is sent to: both are the backend chosen at entry.
C4_BackendFrozen ==
    \A r \in Requests :
        pc[r] = "done" =>
            /\ record_backend[r] \in {entry_active[r], backend_override[r]} \ {None}
            /\ record_backend[r] = ChosenAtEntry(r)
            /\ upstream_backend[r] = ChosenAtEntry(r)

\* C5: in a request without an override, the backend passed to the
\* thinking registry, the backend in the record and the backend whose
\* configuration is used for the send are the same backend.
C5_ConsistentSnapshot ==
    \A r \in Requests :
        (pc[r] \in {"sending", "done"} /\ pipeline[r] = "main" /\ backend_override[r] = None) =>
            /\ thinking_backend[r] = record_backend[r]
            /\ record_backend[r] = upstream_backend[r]

\* ---------------------------------------------------------------------
\* Properties of the observed stream
\* ---------------------------------------------------------------------
Terminal == {"end", "error", "idle_timeout"}

\* C6: the span is handed to finish_request at most once, and exactly once
\* as soon as a poll has returned end-of-stream, an error or an idle
\* timeout, or the wrapper has been dropped.
C6_FinishedExactlyOnce ==
    /\ Len(finished) <= 1
    /\ (dropped \/ seen \cap Terminal # {}) => Len(finished) = 1

\* An upstream error, then an idle timeout on a later poll, then the drop.
C6_Witness ==
    /\ {"error", "idle_timeout"} \subseteq seen
    /\ dropped
    /\ Len(finished) = 1

\* The poll that just returned yielded IdleTimeout.
YieldedIdleTimeout == last_poll = "idle_timeout"

\* IdleTimeout is yielded only with idle_timeout elapsed since creation or
\* since the last chunk.
TimeoutOnlyWhenIdle == YieldedIdleTimeout => idle >= IdleTimeout

\* The record handed to finish_request says timed_out.
TimeoutIsRecorded ==
    YieldedIdleTimeout => Len(finished) = 1 /\ finished[1].timed_out

\* C21: ObservedStream yields IdleTimeout only when idle_timeout has
\* elapsed with no chunk yielded since the stream was created or since the
\* last chunk, and whenever it yields IdleTimeout the finalized record of
\* the request has timed_out = true.
C21_IdleTimeoutIsRecorded == TimeoutOnlyWhenIdle /\ TimeoutIsRecorded

\* ---------------------------------------------------------------------
\* Properties of the reverse model rewriter
\* ---------------------------------------------------------------------
HasBackendMessageStart(bytes) ==
    \E i \in 1..Len(bytes) :
        /\ Needle \in bytes[i].contains
        /\ line_rewritten(bytes[i], ModelMapping)

\* No line of the chunk holds the bytes "message_start" with its quotes.
NeedleFree(bytes) ==
    \A i \in 1..Len(bytes) : Needle \notin bytes[i].contains

\* A data line with a message_start event whose message.model is the
\* mapping's backend model.
CarriesBackendModel(line) ==
    /\ line.prefix = "data"
    /\ line.json = "message_start"
    /\ line.model = Some(ModelMapping.backend)

\* The lines of the chunk whose model field differs between input and output.
ModelReplaced(i) == chunk_out[i].model # chunk_in[i].model

\* C22: the reverse model rewrite replaces the model with the client model
\* only where the observed value equals the mapping's backend model; when
\* no message_start of the chunk, or the JSON body, carries that value
\* (another model, no model, not valid JSON) the bytes returned are the
\* bytes received.
C22_RewriteOnlyOnMatch ==
    /\ Len(chunk_out) = Len(chunk_in)
    /\ \A i \in 1..Len(chunk_in) :
          ModelReplaced(i) =>
              /\ CarriesBackendModel(chunk_in[i])
              /\ chunk_out[i].model = Some(ModelMapping.original)
    /\ chunk_out # chunk_in =>
          \E i \in 1..Len(chunk_in) : CarriesBackendModel(chunk_in[i])
    /\ json_out # json_in =>
          /\ json_in.is_json
          /\ json_in.model = Some(ModelMapping.backend)
          /\ json_out.model = Some(ModelMapping.original)

\* The slow path ran on a chunk whose message_start names another model,
\* not in serde's own rendering, and the chunk came back as it was.
C22_Witness ==
    /\ ~was_done /\ done
    /\ chunk_out = chunk_in
    /\ \E i \in 1..Len(chunk_in) : chunk_in[i] = MessageStart(Some("other-model"), FALSE)

\* A response has been delivered for a request that was forward-mapped, and
\* it carried the backend model of the request's pair.
MappedRoundTrip ==
    /\ mm_pc = "delivered"
    /\ mm_pair # None
    /\ mm_upstream = Unwrap(mm_pair).backend
    /\ mm_reply = Some(mm_upstream)

OnSegmentBoundary(path, prefix) ==
    path = prefix \/ StartsWith(path, prefix \o <<"/">>)

RegistersWith(sid) ==
    /\ op' \in {"register_from_response", "register_from_sse_stream"}
    /\ harvest_session' = Some(sid)

\* Fingerprint h has an entry with session id sid.
RegisteredIn(h, sid) == h \in DOMAIN blocks /\ blocks[h].session = sid

\* C29: registering a block whose fingerprint has an entry with the same
\* session id changes nothing: the number of entries, the entry's confirmed
\* flag and its registration time stay as they are, at every repetition.
C29_ReRegistrationIsNoOp ==
    [][\A sid \in 0..MaxSession :
          RegistersWith(sid) =>
              /\ \A h \in harvest_hashes' :
                     RegisteredIn(h, sid) =>
                         /\ h \in DOMAIN blocks'
                         /\ blocks'[h] = blocks[h]
              /\ (\A h \in harvest_hashes' : RegisteredIn(h, sid)) =>
                     blocks' = blocks
              /\ DOMAIN blocks' = (DOMAIN blocks) \cup harvest_hashes']_vars

\* A register call has just named a block that is confirmed and was
\* registered earlier in the same session.
C29_Witness ==
    /\ op \in {"register_from_response", "register_from_sse_stream"}
    /\ \E h \in harvest_hashes :
        /\ h \in DOMAIN blocks
        /\ blocks[h].session = Unwrap(harvest_session)
        /\ blocks[h].confirmed
        /\ blocks[h].registered_at < now

\* s is t with some elements left out.
RECURSIVE IsSubSeq(_, _)
IsSubSeq(s, t) ==
    IF s = <<>> THEN TRUE
    ELSE IF t = <<>> THEN FALSE
    ELSE IF Head(s) = Head(t) THEN IsSubSeq(Tail(s), Tail(t))
    ELSE IsSubSeq(s, Tail(t))

OtherItems(items) == SelectSeq(items, LAMBDA item : ~IsThinkingItem(item))

\* Message `after` is message `before` with nothing but thinking items taken
\* out of a content array.
OnlyThinkingRemoved(before, after) ==
    /\ after.role = before.role
    /\ after.content.is_array = before.content.is_array
    /\ ~before.content.is_array => after = before
    /\ before.content.is_array =>
        /\ IsSubSeq(after.content.items, before.content.items)
        /\ OtherItems(after.content.items) = OtherItems(before.content.items)

RECURSIVE ItemsRemoved(_, _)
ItemsRemoved(before, after) ==
    IF before = <<>> THEN 0
    ELSE (IF Head(before).content.is_array
          THEN Len(Head(before).content.items) - Len(Head(after).content.items)
          ELSE 0) + ItemsRemoved(Tail(before), Tail(after))

\* C30: filter_request takes out of the body only content items of type
\* thinking or redacted_thinking; every other item, every message whose
\* content is not an array and the rest of the body stay as they are and in
\* their order, and the count returned is the number of items taken out.
C30_OnlyThinkingItemsRemoved ==
    op = "filter_request" =>
        /\ body.has_messages = req.has_messages
        /\ Len(body.messages) = Len(req.messages)
        /\ \A i \in DOMAIN req.messages :
               OnlyThinkingRemoved(req.messages[i], body.messages[i])
        /\ filtered_count = ItemsRemoved(req.messages, body.messages)

\* A thinking block without text was taken out and the text item after it
\* was kept.
C30_Witness ==
    /\ op = "filter_request"
    /\ req = Body(<<Message("assistant",
                             Array(<<Item("thinking", None), Item("text", None)>>))>>)
    /\ body = Body(<<Message("assistant", Array(<<Item("text", None)>>))>>)
    /\ filtered_count = 1

\* The wait has returned.
WaitReturned == wc_pc = "returned"

\* A poll that loads the counter and finds it 0 returns in that step.
ReturnsOnZero ==
    (wc_pc = "loop" /\ wc_pc' # "loop" /\ wc_elapsed < wc_timeout
        /\ active_connections = 0)
    => (wc_pc' = "returned" /\ wc_result' = "stopped")

\* The wait is never under way a poll interval after the timeout; a forced
\* return comes at the timeout or less than a poll interval after it,
\* whatever the counter says.
BoundedByGrace ==
    /\ wc_elapsed < wc_timeout + PollInterval
    /\ (WaitReturned /\ wc_result = "forced") => wc_elapsed >= wc_timeout
    /\ (WaitReturned /\ wc_result = "stopped") => active_connections = 0

\* C27: wait_for_connections returns as soon as one of its polls sees the
\* counter at 0, and otherwise once the grace period has elapsed, less than
\* one poll interval late, however many connections remain; it always
\* returns.
C27_WaitIsBounded ==
    /\ [][ReturnsOnZero]_vars
    /\ []BoundedByGrace
    /\ <>WaitReturned

\* The grace period of the server ran out with connections still open.
C27_Witness ==
    /\ WaitReturned
    /\ wc_result = "forced"
    /\ wc_timeout = GracePeriod
    /\ wc_elapsed = GracePeriod
    /\ active_connections > 0

\* The last k elements of a sequence.
LastOf(seq, k) == SubSeq(seq, Len(seq) - k + 1, Len(seq))

Min(a, b) == IF a <= b THEN a ELSE b

\* C26: after any sequence of n pushes into a ring buffer of any capacity
\* C, the buffer holds at most C records, and they are the min(n, C) most
\* recently pushed records in push order.
C26_RingHoldsMostRecent ==
    /\ Len(ring_records) <= ring_capacity
    /\ ring_records = LastOf(ring_pushed, Min(Len(ring_pushed), ring_capacity))

\* The client has all it will get of the response.
ResponseOver == resp_pc \in {"complete", "aborted", "error"}

\* C24: for every response the proxy emits, either no Content-Length is
\* set or its value is the byte length of the body as the client receives
\* it; an upstream Content-Length that does not match the streamed body is
\* not forwarded.
C24_ContentLengthMatchesBody ==
    ResponseOver => (resp_cl = None \/ resp_cl = Some(resp_received))

\* C7: a call made after the rewriter reached Done returns its chunk
\* unchanged and leaves the rewriter in Done, whatever the chunk holds.
C7_DoneIsAbsorbing ==
    (chunks_seen > 0 /\ was_done) => (chunk_out = chunk_in /\ done)

\* In Done, a chunk with a message_start event naming the backend model.
C7_Witness ==
    /\ chunks_seen > 0
    /\ was_done
    /\ HasBackendMessageStart(chunk_in)
    /\ chunk_out = chunk_in

\* C8: a call on a chunk without the needle returns the chunk unchanged and
\* leaves the rewriter state as it was.
C8_NoNeedleNoEffect ==
    (chunks_seen > 0 /\ NeedleFree(chunk_in)) =>
        (chunk_out = chunk_in /\ done = was_done)

\* In Waiting, a chunk whose message_start event escapes its type, so the
\* needle is absent although the event names the backend model.
C8_Witness ==
    /\ chunks_seen > 0
    /\ ~was_done
    /\ NeedleFree(chunk_in)
    /\ \E i \in 1..Len(chunk_in) : chunk_in[i] = EscapedMessageStart
    /\ chunk_out = chunk_in
    /\ ~done

\* ---------------------------------------------------------------------
\* Properties of the retry loop
\* ---------------------------------------------------------------------
\* A connect error or a timeout.
Retriable(err) == err.is_connect \/ err.is_timeout

\* The loop is over and its last attempt failed retriably; the attempts
\* before the last one are retriable failures in every run.
AllFailedRetriably ==
    /\ outcome \notin {"running", "response"}
    /\ Retriable(Unwrap(last_err))

FailedForGood == last_err # None /\ ~Retriable(Unwrap(last_err))

\* Such a failure ends the request with connection_error: no sleep follows
\* it (every sleep follows an earlier attempt) and no attempt follows it.
ImmediateConnectionError ==
    FailedForGood =>
        /\ outcome = "connection_error"
        /\ Len(sleeps) = sends - 1
        /\ ~ENABLED RetryNext

\* The request is over and its last attempt failed.
EndedInFailure == outcome \notin {"running", "response"}

\* C25: a send failure that is neither a connect error nor a timeout ends
\* the request at once with connection_error, without a backoff sleep or
\* another attempt; a request whose last attempt fails ends with
\* request_timeout when that failure is a timeout and with connection_error
\* otherwise.
C25_FailureKindByLastError ==
    /\ ImmediateConnectionError
    /\ EndedInFailure =>
        outcome = IF Unwrap(last_err).is_timeout
                  THEN "request_timeout" ELSE "connection_error"

RECURSIVE Pow2(_)
Pow2(n) == IF n = 0 THEN 1 ELSE 2 * Pow2(n - 1)

\* Two backoffs last equally long.
SameDuration(d, e) ==
    /\ d.base = e.base
    /\ d.base = 0 \/ d.shift = e.shift

\* C10: the sleep before the k-th retry lasts retry_backoff_base * 2^(k-1);
\* there is one sleep after each failed attempt that is retried and none
\* after the last attempt; three connect failures and a success under the
\* default configuration sleep 100, 200 and 400 ms over four attempts.
C10_BackoffDoubles ==
    /\ \A k \in 1..Len(sleeps) :
        SameDuration(sleeps[k], Backoff(retry_backoff_base, k - 1))
    /\ Len(sleeps) = IF outcome = "running" THEN sends ELSE sends - 1
    /\ ( /\ max_retries = DefaultMaxRetries
         /\ retry_backoff_base = DefaultBackoffBase
         /\ outcome = "response"
         /\ sends = DefaultMaxRetries + 1 ) =>
            [k \in 1..Len(sleeps) |-> sleeps[k].base * Pow2(sleeps[k].shift)]
                = <<100, 200, 400>>


\* ---------------------------------------------------------------------
\* Properties of a harvested stream
\* ---------------------------------------------------------------------
\* C31: a thinking block that opens with text t0 and then gets the deltas
\* d1..dk is registered, at its content_block_stop or at the end of a
\* truncated stream, under the fingerprint of t0 d1 ... dk, so the same text
\* sent back in the next request of the session is kept; deltas for an index
\* with no open block and blocks without text register nothing.
C31_AccumulatedTextIsRegistered ==
    /\ (sse_events # <<>> /\ sse_echo = None) =>
        /\ DOMAIN sse_registered =
               { fast_hash(text) : text \in ConveyedTexts(sse_events) }
        /\ \A h \in DOMAIN sse_registered :
               sse_registered[h].session = current_session
    /\ sse_echo # None => Unwrap(sse_echo).kept

\* A stream cut off before the stop of its block, with a delta for a block
\* that was never opened, and the text of the block sent back.
C31_Witness ==
    /\ sse_events = <<ThinkingDelta(1, <<2>>), ThinkingStart(0, Some(<<1>>)),
                      ThinkingDelta(0, <<2>>), ThinkingDelta(0, <<1>>)>>
    /\ sse_echo = Some([text |-> <<1, 2, 1>>, kept |-> TRUE])


\* C32: a block registered with a session id other than current_session
\* never replaces or downgrades the current-session entry of the same
\* fingerprint: that entry keeps its session and its confirmed flag.
C32_LateHarvestSparesCurrentEntry ==
    [][\A sid \in 0..MaxSession :
          (RegistersWith(sid) /\ sid # current_session) =>
              \A h \in DOMAIN blocks :
                  blocks[h].session = current_session =>
                      /\ h \in DOMAIN blocks'
                      /\ blocks'[h].session = blocks[h].session
                      /\ blocks'[h].confirmed = blocks[h].confirmed]_vars


\* ---------------------------------------------------------------------
\* Properties of the notifications
\* ---------------------------------------------------------------------
\* Every task has told the registry what it read, and some task read the
\* active backend after its last change.
AllNotified == nt_fresh /\ \A t \in Tasks : nt_read[t] = None

\* C33: with concurrent requests that read the active backend and then
\* notify the registry, current_session grows by one for the first backend
\* seen and by one per change of the active backend, and once the requests
\* have notified, the registry's current_backend is the active backend.
C33_SessionFollowsActiveBackend ==
    /\ nt_registry.session <= nt_changes + 1
    /\ AllNotified => nt_registry.backend = nt_active


\* ---------------------------------------------------------------------
\* Properties of a stream cut into chunks
\* ---------------------------------------------------------------------
\* Every byte of the stream has gone through the closure.
StreamFed == sp_stream # <<>> /\ sp_cut = "none" /\ Len(sp_out) = Len(sp_stream)

\* C34: however the response stream is cut into chunks, the outputs of the
\* rewriter, put together, are its output on the stream taken as one chunk.
C34_OutputIndependentOfChunking ==
    StreamFed =>
        sp_out = make_reverse_model_rewriter(FALSE, sp_stream, ModelMapping).out


\* ---------------------------------------------------------------------
\* Properties of the connection counter
\* ---------------------------------------------------------------------
\* C35: the counter is the number of call futures in progress plus the
\* number of live guards, it never wraps below 0, and it is 0 once no
\* future is in progress and no guard is alive.
C35_CounterMatchesLiveConnections ==
    /\ cn_connections # Wrapped
    /\ cn_connections = cn_futures + cn_guards
    /\ (cn_futures = 0 /\ cn_guards = 0) => cn_connections = 0


\* ---------------------------------------------------------------------
\* Properties of the hub's snapshots
\* ---------------------------------------------------------------------
RecordsOf(backend, recent) ==
    Cardinality({ i \in 1..Len(recent) : recent[i].backend = backend })

RECURSIVE TotalOver(_, _)
TotalOver(aggregates, backends) ==
    IF backends = {} THEN 0
    ELSE LET b == CHOOSE x \in backends : TRUE
         IN  aggregates[b] + TotalOver(aggregates, backends \ {b})

\* C36: in every snapshot each backend's total is at least the number of
\* its records in the recent list, and once every finish_request has
\* returned the totals add up to the number of calls.
C36_TotalsCoverRecentRecords ==
    /\ hub_snapshot # None =>
        \A b \in BackendNames :
            Unwrap(hub_snapshot).per_backend[b] >= RecordsOf(b, Unwrap(hub_snapshot).recent)
    /\ InFinish = {} => TotalOver(hub_aggregates, BackendNames) = hub_returned

\* A snapshot taken between the two steps of a finish_request: the total
\* counts a record the recent list does not hold yet, though it has room.
C36_Witness ==
    /\ hub_snapshot # None
    /\ Len(Unwrap(hub_snapshot).recent) = 1
    /\ hub_capacity = 2
    /\ Unwrap(hub_snapshot).per_backend["glm"] = 2
    /\ InFinish = {}
    /\ hub_returned = MaxFinishes


\* ---------------------------------------------------------------------
\* Properties of the input parser
\* ---------------------------------------------------------------------
\* C37: a flush during an unfinished bracketed paste returns exactly one
\* Paste event, whose text is the bytes received since the start marker,
\* and after any flush the parser is in Ground (has_pending is false).
C37_FlushEmitsUnfinishedPaste ==
    /\ ps_unfinished # None =>
        ps_returned = <<Paste(from_utf8_lossy_text(Unwrap(ps_unfinished)))>>
    /\ ps_op = "flush" => ~has_pending(ps_parser)


\* ---------------------------------------------------------------------
\* Properties of the history dialog
\* ---------------------------------------------------------------------
MaxOffset(state) == saturating_sub(Len(state.entries), MAX_VISIBLE_ROWS)

\* C38: from Hidden, under any intents, a Visible state has its
\* scroll_offset between 0 and max(0, entries.len() - 14); Load puts it at
\* that maximum; ScrollUp and ScrollDown on Hidden leave Hidden.
C38_ScrollOffsetWithinPage ==
    /\ hs_state.visible =>
        /\ hs_state.scroll_offset >= 0
        /\ hs_state.scroll_offset <= MaxOffset(hs_state)
    /\ (hs_intent # None /\ Unwrap(hs_intent).kind = "Load") =>
        /\ hs_state.visible
        /\ hs_state.entries = Unwrap(hs_intent).entries
        /\ hs_state.scroll_offset = MaxOffset(hs_state)
    /\ (hs_intent \in {Some(ScrollUp), Some(ScrollDown)} /\ ~hs_prev.visible) =>
        hs_state = Hidden

\* ScrollDown on the last page of twenty entries: the offset stays 6.
C38_Witness ==
    /\ hs_intent = Some(ScrollDown)
    /\ hs_prev = Visible(make_entries(MaxEntries), MaxEntries - MAX_VISIBLE_ROWS)
    /\ hs_state = hs_prev


\* ---------------------------------------------------------------------
\* Properties of the summarization dialog
\* ---------------------------------------------------------------------
\* The last intent was the n-th Error in a row after a Start.
NthError(n) ==
    /\ sm_intent # None
    /\ Unwrap(sm_intent).kind = "Error"
    /\ sm_errors = Some(n)

\* C39: after Start the n-th Error in a row gives Retrying with attempt n
\* while n < MAX_AUTO_RETRIES and Failed with selected_button 0 when
\* n = MAX_AUTO_RETRIES; a Retrying state has attempt < MAX_AUTO_RETRIES.
C39_RetriesThenFailed ==
    /\ \A n \in 1..MAX_AUTO_RETRIES :
        NthError(n) =>
            IF n < MAX_AUTO_RETRIES
            THEN /\ sm_state.kind = "Retrying"
                 /\ sm_state.attempt = n
                 /\ sm_state.error = Unwrap(sm_intent).message
            ELSE sm_state = Failed(Unwrap(sm_intent).message, 0)
    /\ sm_state.kind = "Retrying" =>
        /\ sm_state.attempt >= 1
        /\ sm_state.attempt < MAX_AUTO_RETRIES

\* The third Error in a row after Start: the dialog shows Failed.
C39_Witness ==
    /\ NthError(MAX_AUTO_RETRIES)
    /\ sm_state = Failed("final error", 0)


\* ---------------------------------------------------------------------
\* Properties of the error registry
\* ---------------------------------------------------------------------
\* C40: after any recording calls on a registry of capacity C it retains
\* at most C errors, they are the most recently recorded ones in recording
\* order, and the ids assigned are 1, 2, 3, ... in the order of the calls.
C40_RegistryKeepsLastErrors ==
    /\ Len(er_inner.errors) <= er_inner.capacity
    /\ er_inner.errors =
        LastOf(er_recorded, Min(Len(er_recorded), er_inner.capacity))
    /\ \A i \in 1..Len(er_recorded) : er_recorded[i].id = i

====
